---- MODULE Spec2Model ----
(***************************************************************************)
(* Sentinel backend: the ingestion-to-disbursement pipeline.               *)
(*                                                                         *)
(* Text is modelled as sequences of one-character strings, so that the     *)
(* code's lower(), upper(), strip() and substring tests are computed and   *)
(* not assumed.  Amounts are integers (USDC), magnitudes are integers in   *)
(* tenths, coordinates are integers in 1/100000 of a degree.               *)
(***************************************************************************)
EXTENDS Integers, Sequences, FiniteSets, TLC

(***************************************************************************)
(* Python text primitives used by agent.py, main.py and ngo_manager.py     *)
(***************************************************************************)
UpperLetters == <<"A","B","C","D","E","F","G","H","I","J","K","L","M",
                  "N","O","P","Q","R","S","T","U","V","W","X","Y","Z">>

LowerLetters == <<"a","b","c","d","e","f","g","h","i","j","k","l","m",
                  "n","o","p","q","r","s","t","u","v","w","x","y","z">>

Whitespace == {" ", "\t", "\n"}

SetMin(S) == CHOOSE x \in S : \A y \in S : x <= y

SetMax(S) == CHOOSE x \in S : \A y \in S : x >= y

\* str.lower() on one character
LowerChar(c) ==
    IF \E i \in 1..26 : UpperLetters[i] = c
    THEN LowerLetters[CHOOSE i \in 1..26 : UpperLetters[i] = c]
    ELSE c

\* str.upper() on one character
UpperChar(c) ==
    IF \E i \in 1..26 : LowerLetters[i] = c
    THEN UpperLetters[CHOOSE i \in 1..26 : LowerLetters[i] = c]
    ELSE c

\* str.lower()
lower(s) == [i \in 1..Len(s) |-> LowerChar(s[i])]

\* str.upper()
upper(s) == [i \in 1..Len(s) |-> UpperChar(s[i])]

\* str.strip(): leading and trailing whitespace removed
strip(s) ==
    LET keep == {i \in 1..Len(s) : s[i] \notin Whitespace}
    IN  IF keep = {} THEN <<>> ELSE SubSeq(s, SetMin(keep), SetMax(keep))

\* the Python test `k in t` on two strings
contains(k, t) ==
    \E i \in 0..(Len(t) - Len(k)) : SubSeq(t, i + 1, i + Len(k)) = k

\* str.startswith()
startswith(s, p) == Len(s) >= Len(p) /\ SubSeq(s, 1, Len(p)) = p

DigitChars == <<"0","1","2","3","4","5","6","7","8","9">>

IsDigit(c) == \E i \in 1..10 : DigitChars[i] = c

DigitVal(c) == (CHOOSE i \in 1..10 : DigitChars[i] = c) - 1

RECURSIVE NatStr(_)
\* str(n) for an int n >= 0
NatStr(n) == IF n < 10 THEN <<DigitChars[n + 1]>>
             ELSE NatStr(n \div 10) \o <<DigitChars[(n % 10) + 1]>>

\* str(n) for an int
IntStr(n) == IF n < 0 THEN <<"-">> \o NatStr(0 - n) ELSE NatStr(n)

RECURSIVE DigitsVal(_)
DigitsVal(s) == IF s = <<>> THEN 0
                ELSE 10 * DigitsVal(SubSeq(s, 1, Len(s) - 1)) + DigitVal(s[Len(s)])

(***************************************************************************)
(* Dynamic values: the fields of a raw payload and of a judge response.    *)
(* t is the Python type, s the text of a str, n the value of a number.     *)
(***************************************************************************)
Str(s) == [t |-> "str", s |-> s, n |-> 0]

Num(n) == [t |-> "num", s |-> <<>>, n |-> n]

NoneV == [t |-> "none", s |-> <<>>, n |-> 0]

Absent == [t |-> "absent", s |-> <<>>, n |-> 0]

\* dict.get(key, default) on a field that may be absent
Get(v, default) == IF v.t = "absent" THEN default ELSE v

\* str(v)
PyStr(v) == CASE v.t = "str" -> v.s
              [] v.t = "num" -> IntStr(v.n)
              [] OTHER -> <<"N","o","n","e">>

\* float(v): ok is FALSE where Python raises ValueError or TypeError.  The
\* texts of the model are whole numbers or not numbers at all.
PyFloat(v) ==
    IF v.t = "num" THEN [ok |-> TRUE, n |-> v.n]
    ELSE IF v.t # "str" THEN [ok |-> FALSE, n |-> 0]
    ELSE LET b == strip(v.s)
             neg == Len(b) > 0 /\ b[1] = "-"
             d == IF Len(b) > 0 /\ b[1] \in {"-", "+"} THEN SubSeq(b, 2, Len(b)) ELSE b
         IN  IF d # <<>> /\ \A i \in 1..Len(d) : IsDigit(d[i])
             THEN [ok |-> TRUE, n |-> IF neg THEN 0 - DigitsVal(d) ELSE DigitsVal(d)]
             ELSE [ok |-> FALSE, n |-> 0]

(***************************************************************************)
(* Words of the decision tables (agent.py)                                 *)
(***************************************************************************)
W_quake == <<"q","u","a","k","e">>

W_earthquake == <<"e","a","r","t","h","q","u","a","k","e">>

W_eq == <<"e","q">>

W_fire == <<"f","i","r","e">>

W_volcano == <<"v","o","l","c","a","n","o">>

W_wildfire == <<"w","i","l","d","f","i","r","e">>

W_storm == <<"s","t","o","r","m">>

W_hurricane == <<"h","u","r","r","i","c","a","n","e">>

W_cyclone == <<"c","y","c","l","o","n","e">>

W_typhoon == <<"t","y","p","h","o","o","n">>

W_flood == <<"f","l","o","o","d">>

W_fl == <<"f","l">>

W_ts == <<"t","s">>

W_tsunami == <<"t","s","u","n","a","m","i">>

W_active == <<"a","c","t","i","v","e">>

W_evacuation == <<"e","v","a","c","u","a","t","i","o","n">>

W_warning == <<"w","a","r","n","i","n","g">>

W_YES == <<"Y","E","S">>

W_NO == <<"N","O">>

RedLevels == {<<"r","e","d">>, <<"s","e","v","e","r","e">>, <<"e","x","t","r","e","m","e">>, <<"w","a","r","n","i","n","g">>}

\* the keys a raw payload of the model can hold, as text
KeyText == [magnitude |-> <<"m","a","g","n","i","t","u","d","e">>, severity |-> <<"s","e","v","e","r","i","t","y">>,
            alert_level |-> <<"a","l","e","r","t","_","l","e","v","e","l">>, headline |-> <<"h","e","a","d","l","i","n","e">>]

RawKeys == {"magnitude", "severity", "alert_level", "headline"}

\* the test `word in str(raw_data).lower()`: the word is alphabetic, so it
\* lies inside one key or one value of the printed dict
InRawText(word, raw) ==
    \E k \in RawKeys :
        /\ raw[k].t # "absent"
        /\ \/ contains(word, lower(KeyText[k]))
           \/ contains(word, lower(PyStr(raw[k])))

Decision(auth, dec, conf, amount) ==
    [authorization |-> auth, decision |-> dec,
     confidence_score |-> conf, payout_amount_usdc |-> amount]

Returned(d) == [raised |-> FALSE, d |-> d]

Raised == [raised |-> TRUE, d |-> Decision(W_NO, "DENY", Num(0), Str(<<"0">>))]

\* MockDecision with the storm class tested before the fire class
MockDecision_StormFirst(disaster_type) ==
    LET dt_lower == lower(disaster_type)
    IN  IF contains(W_quake, dt_lower) \/ contains(W_earthquake, dt_lower)
           \/ contains(W_eq, dt_lower)
        THEN Decision(W_YES, "PAYOUT", Num(98), Str(IntStr(8200)))
        ELSE IF contains(W_storm, dt_lower) \/ contains(W_hurricane, dt_lower)
                \/ contains(W_cyclone, dt_lower) \/ contains(W_typhoon, dt_lower)
        THEN Decision(W_YES, "PAYOUT", Num(92), Str(IntStr(9500)))
        ELSE IF contains(W_fire, dt_lower) \/ contains(W_volcano, dt_lower)
                \/ contains(W_wildfire, dt_lower)
        THEN Decision(W_YES, "PAYOUT", Num(94), Str(IntStr(5600)))
        ELSE IF contains(W_flood, dt_lower) \/ W_fl = dt_lower \/ W_ts = dt_lower
                \/ contains(W_tsunami, dt_lower)
        THEN Decision(W_YES, "PAYOUT", Num(87), Str(IntStr(7200)))
        ELSE Decision(W_NO, "DENY", Num(25), Str(IntStr(0)))

\* agent.py get_ai_decision, the MOCK table
MockDecision(disaster_type) ==
    LET dt_lower == lower(disaster_type)
    IN  IF contains(W_quake, dt_lower) \/ contains(W_earthquake, dt_lower)
           \/ contains(W_eq, dt_lower)
        THEN Decision(W_YES, "PAYOUT", Num(98), Str(IntStr(8200)))
        ELSE IF contains(W_fire, dt_lower) \/ contains(W_volcano, dt_lower)
                \/ contains(W_wildfire, dt_lower)
        THEN Decision(W_YES, "PAYOUT", Num(94), Str(IntStr(5600)))
        ELSE IF contains(W_storm, dt_lower) \/ contains(W_hurricane, dt_lower)
                \/ contains(W_cyclone, dt_lower) \/ contains(W_typhoon, dt_lower)
        THEN Decision(W_YES, "PAYOUT", Num(92), Str(IntStr(9500)))
        ELSE IF contains(W_flood, dt_lower) \/ W_fl = dt_lower \/ W_ts = dt_lower
                \/ contains(W_tsunami, dt_lower)
        THEN Decision(W_YES, "PAYOUT", Num(87), Str(IntStr(7200)))
        ELSE Decision(W_NO, "DENY", Num(25), Str(IntStr(0)))

\* the quake branch of the fallback pays min(10000, int(magnitude * 1000)),
\* or 6500 when the magnitude is 0; magnitudes are in tenths here
QuakeAmount(m10) == IF m10 # 0
                    THEN (IF m10 * 100 < 10000 THEN m10 * 100 ELSE 10000)
                    ELSE 6500

FallbackDeny == Decision(W_NO, "DENY", Num(45), Str(IntStr(0)))

\* agent.py _intelligent_fallback: raised is TRUE where `magnitude >= 7.0`
\* raises TypeError (a magnitude that is no number)
_intelligent_fallback(disaster_type, raw_data) ==
    LET dt_lower == lower(disaster_type)
        severity == lower(PyStr(Get(raw_data.severity, Get(raw_data.alert_level, Str(<<>>)))))
        is_red_alert == severity \in RedLevels
        isQuake == contains(W_quake, dt_lower) \/ contains(W_earthquake, dt_lower)
                   \/ contains(W_eq, dt_lower)
        isFire == contains(W_fire, dt_lower) \/ contains(W_volcano, dt_lower)
                  \/ contains(W_wildfire, dt_lower)
        isStorm == contains(W_storm, dt_lower) \/ contains(W_hurricane, dt_lower)
                   \/ contains(W_cyclone, dt_lower) \/ contains(W_tsunami, dt_lower)
                   \/ contains(W_flood, dt_lower) \/ W_fl = dt_lower
        magnitude == Get(raw_data.magnitude, Num(0))
    IN  IF isQuake /\ magnitude.t # "num" THEN Raised
        ELSE IF isQuake /\ (magnitude.n >= 70 \/ is_red_alert)
        THEN Returned(Decision(W_YES, "PAYOUT", Num(85), Str(IntStr(QuakeAmount(magnitude.n)))))
        ELSE IF isFire /\ (is_red_alert \/ InRawText(W_active, raw_data))
        THEN Returned(Decision(W_YES, "PAYOUT", Num(82), Str(IntStr(5500))))
        ELSE IF isStorm /\ (is_red_alert \/ InRawText(W_evacuation, raw_data)
                            \/ InRawText(W_warning, raw_data))
        THEN Returned(Decision(W_YES, "PAYOUT", Num(88), Str(IntStr(7200))))
        ELSE Returned(FallbackDeny)

\* mutant: any answer that begins with YES authorizes
NormalizeAuth_Prefix(v) ==
    LET auth == upper(strip(PyStr(v)))
    IN  IF startswith(auth, W_YES) THEN W_YES ELSE W_NO

\* agent.py get_ai_decision, "Enforce strict YES/NO authorization"
NormalizeAuth(v) ==
    LET auth == upper(strip(PyStr(v)))
    IN  IF auth \in {W_YES, W_NO} THEN auth ELSE W_NO

\* mutant: the amount of a denied answer is left as the judge gave it
ParseJudge_KeepAmount(resp, disaster_type, raw_data) ==
    IF resp.shape # "object" THEN _intelligent_fallback(disaster_type, raw_data)
    ELSE LET auth == upper(strip(PyStr(Get(resp.authorization, Str(<<>>)))))
             a == IF auth \in {W_YES, W_NO} THEN auth ELSE W_NO
         IN  Returned(Decision(a, IF a = W_YES THEN "PAYOUT" ELSE "DENY",
                               resp.confidence_score, resp.payout_amount_usdc))

\* agent.py get_ai_decision, the live path once the judge has answered.
\* resp.shape is "object" for a JSON object; "not_json" (json.loads raises)
\* and "not_object" (parsed.get raises) both end in the fallback.
ParseJudge(resp, disaster_type, raw_data) ==
    IF resp.shape # "object" THEN _intelligent_fallback(disaster_type, raw_data)
    ELSE LET auth == NormalizeAuth(Get(resp.authorization, Str(<<>>)))
         IN  Returned(Decision(auth,
                               IF auth = W_YES THEN "PAYOUT" ELSE "DENY",
                               resp.confidence_score,
                               IF auth = W_NO THEN Str(<<"0">>) ELSE resp.payout_amount_usdc))

(***************************************************************************)
(* Recipient registry and selection policy (services/ngo_manager.py)       *)
(***************************************************************************)
Rep(c, n) == [i \in 1..n |-> c]

HexDigits == {"0","1","2","3","4","5","6","7","8","9",
              "a","b","c","d","e","f","A","B","C","D","E","F"}

W_0x == <<"0","x">>

\* int(s, 16) does not raise: Python strips whitespace, accepts a sign, a
\* 0x prefix and single underscores between digits (or after the prefix)
PyIntHexOk(s) ==
    LET b == strip(s)
        u == IF Len(b) > 0 /\ b[1] \in {"+", "-"} THEN SubSeq(b, 2, Len(b)) ELSE b
        pre == startswith(lower(u), W_0x)
        d == IF pre THEN SubSeq(u, 3, Len(u)) ELSE u
    IN  /\ d # <<>>
        /\ \A i \in 1..Len(d) : d[i] \in HexDigits \cup {"_"}
        /\ d[Len(d)] # "_"
        /\ (d[1] = "_" => pre)
        /\ \A i \in 1..(Len(d) - 1) : ~(d[i] = "_" /\ d[i + 1] = "_")

NGO(id, verified, disaster_types, regions, address) ==
    [id |-> id, verified |-> verified, disaster_types |-> disaster_types,
     regions |-> regions, address |-> address]

\* the value None of select_recipient
NoNGO == NGO("none", FALSE, <<>>, <<>>, <<>>)

InSeq(x, seq) == \E i \in 1..Len(seq) : seq[i] = x

\* NGOManager.is_verified
is_verified(ngos, address) ==
    LET address_lower == lower(address)
    IN  \E i \in 1..Len(ngos) :
            ngos[i].verified /\ lower(ngos[i].address) = address_lower

\* NGOManager._get_region; lat and lon are in 1/100000 degree
_get_region(lat, lon) ==
    LET D(x) == x * 100000
    IN  IF D(10) <= lat /\ lat <= D(50) /\ D(100) <= lon /\ lon <= D(150) THEN "asia"
        ELSE IF D(25) <= lat /\ lat <= D(50) /\ D(-130) <= lon /\ lon <= D(-65)
        THEN "north_america"
        ELSE IF D(25) <= lat /\ lat <= D(50) /\ D(-100) <= lon /\ lon <= D(-70) THEN "us"
        ELSE IF D(-50) <= lat /\ lat <= D(50) /\ D(-180) <= lon /\ lon <= D(180)
        THEN "pacific"
        ELSE "global"

\* mutant: the filter does not look at verified
Supports_Unverified(ngo, disaster_lower) ==
    \E j \in 1..Len(ngo.disaster_types) :
        \/ contains(lower(ngo.disaster_types[j]), disaster_lower)
        \/ contains(disaster_lower, lower(ngo.disaster_types[j]))

\* the filter of select_recipient: verified and supports the disaster type
Supports(ngo, disaster_lower) ==
    /\ ngo.verified
    /\ \E j \in 1..Len(ngo.disaster_types) :
          \/ contains(lower(ngo.disaster_types[j]), disaster_lower)
          \/ contains(disaster_lower, lower(ngo.disaster_types[j]))

\* NGOManager.select_recipient
select_recipient(ngos, disaster_type, location) ==
    LET disaster_lower == lower(disaster_type)
        region == _get_region(location[1], location[2])
        IsCandidate(ngo) == Supports(ngo, disaster_lower)
        candidates == SelectSeq(ngos, IsCandidate)
        IsRegional(ngo) == InSeq(region, ngo.regions) \/ InSeq("global", ngo.regions)
        region_candidates == SelectSeq(candidates, IsRegional)
        IsGlobal(ngo) == InSeq("global", ngo.regions)
        global_ngos == SelectSeq(candidates, IsGlobal)
    IN  IF candidates = <<>> THEN NoNGO
        ELSE IF region_candidates # <<>> THEN region_candidates[1]
        ELSE IF global_ngos # <<>> THEN global_ngos[1]
        ELSE candidates[1]

\* NGOManager.validate_address: the is_valid of the pair it returns
validate_address(ngos, address0) ==
    LET address == strip(address0)
    IN  /\ address0 # <<>>
        /\ startswith(address, W_0x)
        /\ Len(address) = 42
        /\ PyIntHexOk(SubSeq(address, 3, Len(address)))
        /\ is_verified(ngos, address)

(***************************************************************************)
(* Event normaliser and fingerprint (main.py)                              *)
(***************************************************************************)
RECURSIVE DropSpaces(_)
DropSpaces(s) == IF s # <<>> /\ Head(s) \in Whitespace THEN DropSpaces(Tail(s)) ELSE s

RECURSIVE Collapse(_)
\* _RE_SPACES.sub(" ", s): every run of whitespace becomes one blank
Collapse(s) == IF s = <<>> THEN <<>>
               ELSE IF Head(s) \in Whitespace
               THEN <<" ">> \o Collapse(DropSpaces(Tail(s)))
               ELSE <<Head(s)>> \o Collapse(Tail(s))

\* main.py _norm
_norm(s) == Collapse(lower(strip(s)))

W_other == <<"o","t","h","e","r">>

\* mutant: the fire keywords are tested first
_trigger_bucket_FireFirst(disaster_type) ==
    LET tt == _norm(disaster_type)
        HasAny(words) == \E w \in words : contains(w, tt)
    IN  IF HasAny({W_wildfire, W_fire, W_volcano, <<"t","h","e","r","m","a","l">>}) THEN W_fire
        ELSE IF HasAny({W_earthquake, W_quake, W_eq, <<"s","e","i","s","m","i","c">>}) THEN W_quake
        ELSE IF HasAny({W_hurricane, W_cyclone, W_typhoon, W_storm, <<"t","o","r","n","a","d","o">>,
                     W_flood, W_fl, W_tsunami, W_ts}) THEN W_storm
        ELSE W_other

\* main.py _trigger_bucket
_trigger_bucket(disaster_type) ==
    LET tt == _norm(disaster_type)
        HasAny(words) == \E w \in words : contains(w, tt)
    IN  IF HasAny({W_earthquake, W_quake, W_eq, <<"s","e","i","s","m","i","c">>}) THEN W_quake
        ELSE IF HasAny({W_wildfire, <<"w","i","l","d","f","i","r","e","s">>, W_fire, W_volcano,
                     <<"v","o","l","c","a","n","o","e","s">>, <<"t","h","e","r","m","a","l">>}) THEN W_fire
        ELSE IF HasAny({W_hurricane, W_cyclone, W_typhoon, W_storm, <<"t","o","r","n","a","d","o">>,
                     W_flood, W_fl, W_tsunami, W_ts}) THEN W_storm
        ELSE W_other

\* a coordinate given in 1/100000 degree, rounded to 1/10000 degree
\* (the inputs of the model hold no tie, which binary rounding decides)
Round4(x) == IF x >= 0 THEN (x + 5) \div 10 ELSE 0 - ((5 - x) \div 10)

\* f"{x:.4f}": the sign of a negative number stays when it rounds to zero;
\* the decimal point is left out, the text has the digits in 1/10000 degree
Fmt4(x) == IF x < 0 THEN <<"-">> \o NatStr(0 - Round4(x)) ELSE NatStr(Round4(x))

\* main.py _event_id: SHA-1 of the concatenated normalised fields, taken as
\* injective, so the fingerprint is the hashed text itself
_event_id(event) ==
    _norm(event.source) \o _norm(event.disaster_type) \o _norm(event.description)
    \o Fmt4(event.location[1]) \o <<",">> \o Fmt4(event.location[2])

(***************************************************************************)
(* The events, registries and judge answers the model draws from           *)
(***************************************************************************)
Raw(magnitude, severity, alert_level, headline) ==
    [magnitude |-> magnitude, severity |-> severity,
     alert_level |-> alert_level, headline |-> headline]

SourceEvent(source, disaster_type, description, location, raw) ==
    [source |-> source, disaster_type |-> disaster_type,
     description |-> description, location |-> location, raw |-> raw]

W_mock == <<"m","o","c","k">>

Events ==
    << SourceEvent(W_mock, <<"M","8",".","2"," ","E","a","r","t","h","q","u","a","k","e">>, <<"T","o","k","y","o">>, <<3567640, 13965000>>,
                   Raw(Num(82), Str(<<"r","e","d">>), Absent, Absent)),
       SourceEvent(W_mock, <<"m","i","n","o","r"," ","t","r","e","m","o","r">>, <<"L","i","m","a">>, <<-1204640, -7704280>>,
                   Raw(Num(31), Str(<<"g","r","e","e","n">>), Absent, Absent)),
       SourceEvent(<<"e","o","n","e","t">>, <<"w","i","l","d","f","i","r","e","s">>, <<"E","t","n","a">>, <<3775000, 1499000>>,
                   Raw(Absent, Str(<<"E","x","t","r","e","m","e">>), Absent, Absent)),
       SourceEvent(<<"n","w","s">>, <<"s","t","o","r","m">>, <<"M","i","a","m","i">>, <<2576170, -8019180>>,
                   Raw(Absent, Str(<<"s","e","v","e","r","e">>), Absent, Str(<<"T","o","r","n","a","d","o"," ","W","a","r","n","i","n","g">>))),
       SourceEvent(<<"a","p","i">>, <<"e","a","r","t","h","q","u","a","k","e">>, <<"K","o","b","e">>, <<3469000, 13519000>>,
                   Raw(Str(<<"7",".","2">>), Absent, Absent, Absent)),
       SourceEvent(<<"a","p","i">>, <<"T","s","u","n","a","m","i">>, <<"H","i","l","o">>, <<1972000, -15508000>>,
                   Raw(Absent, Absent, Str(<<"R","e","d">>), Absent)),
       SourceEvent(<<"g","d","a","c","s">>, W_eq, <<"L","u","z","o","n">>, <<1459950, 12098420>>,
                   Raw(Absent, Absent, Str(<<"R","e","d">>), Absent)),
       SourceEvent(<<"g","d","a","c","s">>, <<"f","l","o","o","d">>, <<"D","h","a","k","a">>, <<2381030, 9041250>>,
                   Raw(Absent, Absent, Str(<<"O","r","a","n","g","e">>), Absent)),
       SourceEvent(<<"n","w","s">>, <<"s","t","o","r","m">>, <<"M","i","a","m","i">>, <<2576170, -8019180>>,
                   Raw(Absent, Str(<<"e","x","t","r","e","m","e">>), Absent, Str(<<"H","u","r","r","i","c","a","n","e"," ","W","a","r","n","i","n","g">>))),
       SourceEvent(<<"e","o","n","e","t">>, <<"v","o","l","c","a","n","o","e","s">>, <<"H","e","k","l","a">>, <<6399000, -1967000>>,
                   Raw(Absent, Absent, Absent, Absent)) >>

\* the events POST /analyze is called with
AnalyzeRequests == 1..6

\* data/scenarios.json as load_mock_scenarios reads it: events 1 and 2
MockScenarios == <<1, 2>>

\* what the three live adapters can return in one ingest, in adapter order
LiveIngests == { <<>>, <<3, 4>> }

AddrGood == W_0x \o Rep("a", 40)

AddrUpper == W_0x \o Rep("B", 40)

AddrShort == W_0x \o Rep("c", 38)

AddrTypo == W_0x \o <<"d", "_">> \o Rep("d", 38)

\* NGOManager._ngos: data/ngos.json as _load_ngos reads it at start-up; the
\* list is never written afterwards
_ngos ==
    << NGO("asia-quake", TRUE, <<W_earthquake>>, <<"asia">>, AddrGood),
       NGO("fire-short", TRUE, <<W_wildfire>>, <<"global">>, AddrShort),
       NGO("storm-typo", TRUE, <<W_storm>>, <<"north_america">>, AddrTypo),
       NGO("flood-unverified", FALSE, <<W_flood, W_tsunami>>, <<"pacific">>, AddrUpper) >>

JudgeResponse(shape, authorization, confidence_score, payout_amount_usdc) ==
    [shape |-> shape, authorization |-> authorization,
     confidence_score |-> confidence_score, payout_amount_usdc |-> payout_amount_usdc]

NoResponse == JudgeResponse("none", Absent, Absent, Absent)

\* the answers of the external judge
JudgeResponses ==
    { JudgeResponse("object", Str(W_YES), Num(90), Str(<<"5","0","0","0">>)),
      JudgeResponse("object", Str(<<"y","e","s">>), Num(90), Str(<<"5","0","0","0","0">>)),
      JudgeResponse("object", Str(<<" ","Y","e","s"," ">>), Num(90), Str(<<"5",",","0","0","0">>)),
      JudgeResponse("object", Str(W_YES), Str(<<"h","i","g","h">>), Str(<<"5","0","0","0">>)),
      JudgeResponse("object", Str(<<"Y","E","S","!">>), Num(90), Str(<<"5","0","0","0">>)),
      JudgeResponse("object", Str(W_NO), Str(<<"h","i","g","h">>), Str(<<"0">>)),
      JudgeResponse("object", Str(W_NO), Num(90), Str(<<"5","0","0","0">>)),
      JudgeResponse("object", Absent, Absent, Absent),
      JudgeResponse("not_object", Absent, Absent, Absent),
      JudgeResponse("not_json", Absent, Absent, Absent) }

(***************************************************************************)
(* State                                                                   *)
(***************************************************************************)
\* pipeline runs started in one behaviour
MaxRuns == 2

VARIABLES
    main_mode,              \* main.py settings.sentinel_mode
    agent_mode,             \* agent.py settings.sentinel_mode, read at import
    gemini_configured,      \* agent.py _gemini_configured
    blockchain_configured,  \* main.py blockchain_configured
    db,                     \* the SentinelEventDB rows, in insertion order
    queue,                  \* events_to_process of a /simulate still to run
    runs,                   \* pipeline runs started so far
    run,                    \* the process_event_pipeline call in progress
    switchboard,            \* the IngestionSwitchboard.ingest call in progress
    poller,                 \* main.py background_poller
    SOURCE_STATUS_CACHE,    \* main.py SOURCE_STATUS_CACHE
    LIVE_EVENT_CACHE,       \* main.py LIVE_EVENT_CACHE
    request,                \* the /simulate or /live/ingest request in progress
    ingests,                \* IngestionSwitchboard.ingest calls made so far
    SentinelLog,            \* the committed SentinelLog rows, in commit order
    now,                    \* the clock, in minutes since the start
    call                    \* a call of one of the pure functions, with its result

vars == <<main_mode, agent_mode, gemini_configured, blockchain_configured,
          db, queue, runs, run,
          switchboard, poller, SOURCE_STATUS_CACHE, LIVE_EVENT_CACHE, request,
          ingests, SentinelLog, now, call>>

\* the state of the ingestion side and of the function calls, which the
\* payout pipeline does not touch
ingestion == <<switchboard, poller, SOURCE_STATUS_CACHE, LIVE_EVENT_CACHE, request,
               ingests, SentinelLog, now>>

\* the state of the payout pipeline
pipeline == <<agent_mode, gemini_configured, blockchain_configured, db, runs, run>>

config == <<agent_mode, gemini_configured, blockchain_configured>>

NoDecision == Decision(<<>>, "", Absent, Absent)

IdleRun ==
    [pc |-> "idle", ev |-> 0, judge |-> "none", timedOut |-> FALSE,
     resp |-> NoResponse, decision_data |-> NoDecision, authorization |-> <<>>,
     decision |-> "", ngo_selected |-> 0, valid |-> FALSE,
     tx_hash |-> "none", status |-> "none", error |-> "none",
     sinkCalls |-> 0, rows0 |-> 0, trace |-> <<>>]

\* no exception
NoExc == [type |-> "none", code |-> 0]

\* no IngestionSwitchboard.ingest call is in progress
IdleSwitchboard ==
    [pc |-> "idle", caller |-> "none", mode |-> "none",
     file |-> [state |-> "none", scenarios |-> <<>>],
     results |-> <<>>, events |-> <<>>, logs |-> <<>>,
     calls |-> [gdacs |-> 0, eonet |-> 0, owm |-> 0, nws |-> 0],
     raised |-> NoExc]

\* the poller sleeps between two cycles
IdlePoller ==
    [pc |-> "sleep", cycle_mode |-> "none", called |-> FALSE, wrote |-> FALSE,
     events |-> <<>>, logs |-> <<>>, pending |-> <<>>, flushed |-> FALSE]

\* no /simulate or /live/ingest request is in progress
IdleRequest ==
    [pc |-> "idle", handler |-> "none", scenario_type |-> Absent, events |-> <<>>,
     logs |-> <<>>, status_code |-> 0]

\* SOURCE_STATUS_CACHE as main.py creates it
UnknownStatus == [status |-> "unknown", events |-> 0, message |-> <<>>]

\* no function call has been made
NoCall == [fn |-> "none"]

Init ==
    /\ switchboard = IdleSwitchboard
    /\ poller = IdlePoller
    /\ SOURCE_STATUS_CACHE = [gdacs |-> UnknownStatus, eonet |-> UnknownStatus,
                              nws |-> UnknownStatus]
    /\ LIVE_EVENT_CACHE = {}
    /\ request = IdleRequest
    /\ ingests = 0
    /\ SentinelLog = <<>>
    /\ now = 0
    /\ call = NoCall
    /\ main_mode \in {"MOCK", "LIVE"}
    /\ agent_mode = main_mode
    /\ gemini_configured \in BOOLEAN
    /\ agent_mode = "MOCK" => ~gemini_configured
    /\ blockchain_configured \in BOOLEAN
    /\ db = <<>>
    /\ queue = <<>>
    /\ runs = 0
    /\ run = IdleRun

(***************************************************************************)
(* Request handlers (main.py)                                              *)
(***************************************************************************)
\* process_event_pipeline calls get_ai_decision as a plain function: while
\* that call waits in future.result(timeout=15), or in the executor's
\* shutdown, the thread of the event loop is held, and neither the poller
\* task nor another request handler is scheduled
JudgeWait == run.pc \in {"future_result", "executor_exit"}

\* POST /mode/toggle: main.py rebinds its own settings; agent.py keeps the
\* Settings object it read at import.  ingest() is a synchronous call, so no
\* other handler runs while it is in progress.
toggle_mode(new_mode) ==
    /\ switchboard.pc = "idle"
    /\ ~JudgeWait
    /\ main_mode # new_mode
    /\ main_mode' = new_mode
    /\ UNCHANGED <<ingestion, call, config, db, queue, runs, run>>

\* IngestionSwitchboard.ingest: the events of the result
IngestEvents == IF main_mode = "MOCK" THEN {MockScenarios} ELSE LiveIngests

\* the filter of /simulate on req.scenario_type
events_to_process(events, scenario_type) ==
    IF scenario_type.t = "absent" \/ scenario_type.s = <<>> THEN events
    ELSE LET want == _norm(scenario_type.s)
             Match(i) == \/ _trigger_bucket(Events[i].disaster_type) = want
                         \/ _norm(Events[i].disaster_type) = want
             SameBucket(i) == _trigger_bucket(Events[i].disaster_type) = scenario_type.s
             first == SelectSeq(events, Match)
         IN  IF first = <<>> /\ scenario_type.s \in {W_quake, W_fire, W_storm}
             THEN SelectSeq(events, SameBucket)
             ELSE first

ScenarioTypes == {Absent, Str(W_quake)}

\* POST /simulate, up to the loop over events_to_process
simulate ==
    /\ run.pc = "idle"
    /\ queue = <<>>
    /\ \E events \in IngestEvents, scenario_type \in ScenarioTypes :
          queue' = events_to_process(events, scenario_type)
    /\ UNCHANGED <<ingestion, call, main_mode, config, db, runs, run>>

\* process_event_pipeline is entered: the STEP 1 log.  rows0 remembers how
\* many rows the table held when the run began.
Begin(i) == [IdleRun EXCEPT !.pc = "detected", !.ev = i, !.rows0 = Len(db),
                            !.trace = <<"DETECTED">>]

\* the loop of /simulate: await process_event_pipeline(event), in order
simulate_next ==
    /\ run.pc = "idle"
    /\ queue # <<>>
    /\ runs < MaxRuns
    /\ run' = Begin(Head(queue))
    /\ queue' = Tail(queue)
    /\ runs' = runs + 1
    /\ UNCHANGED <<ingestion, call, main_mode, config, db>>

\* POST /analyze
analyze(i) ==
    /\ run.pc = "idle"
    /\ queue = <<>>
    /\ runs < MaxRuns
    /\ run' = Begin(i)
    /\ runs' = runs + 1
    /\ UNCHANGED <<ingestion, call, main_mode, config, db, queue>>

(***************************************************************************)
(* Decision Oracle Gateway (agent.py get_ai_decision)                      *)
(***************************************************************************)
Ev == Events[run.ev]

\* the pipeline after get_ai_decision has returned r.d, or raised
AfterDecision(r, base) ==
    IF r.raised
    THEN [base EXCEPT !.pc = "raised", !.error = "get_ai_decision"]
    ELSE [base EXCEPT !.pc = "decided", !.decision_data = r.d]

Called == [run EXCEPT !.trace = Append(@, "ORACLE")]

\* get_ai_decision in MOCK mode: the deterministic table
get_ai_decision_mock ==
    /\ run.pc = "detected"
    /\ agent_mode = "MOCK"
    /\ run' = AfterDecision(Returned(MockDecision(Ev.disaster_type)), Called)
    /\ UNCHANGED <<ingestion, call, main_mode, config, db, queue, runs>>

\* get_ai_decision without a Gemini key: the rule-based fallback
get_ai_decision_nokey ==
    /\ run.pc = "detected"
    /\ agent_mode # "MOCK"
    /\ ~gemini_configured
    /\ run' = AfterDecision(_intelligent_fallback(Ev.disaster_type, Ev.raw), Called)
    /\ UNCHANGED <<ingestion, call, main_mode, config, db, queue, runs>>

\* executor.submit(call_gemini); future.result(timeout=15) starts to wait
judge_submit ==
    /\ run.pc = "detected"
    /\ agent_mode # "MOCK"
    /\ gemini_configured
    /\ run' = [Called EXCEPT !.pc = "future_result", !.judge = "running"]
    /\ UNCHANGED <<ingestion, call, main_mode, config, db, queue, runs>>

\* the judge answers within the timeout: the response is parsed
judge_answers(resp) ==
    /\ run.pc = "future_result"
    /\ run.judge = "running"
    /\ run' = AfterDecision(ParseJudge(resp, Ev.disaster_type, Ev.raw),
                            [run EXCEPT !.judge = "done", !.resp = resp])
    /\ UNCHANGED <<ingestion, call, main_mode, config, db, queue, runs>>

\* generate_content raises within the timeout: except Exception, fallback
judge_fails ==
    /\ run.pc = "future_result"
    /\ run.judge = "running"
    /\ run' = AfterDecision(_intelligent_fallback(Ev.disaster_type, Ev.raw),
                            [run EXCEPT !.judge = "done"])
    /\ UNCHANGED <<ingestion, call, main_mode, config, db, queue, runs>>

\* future.result raises TimeoutError after 15 s; leaving the `with` block
\* runs ThreadPoolExecutor.__exit__, that is shutdown(wait=True), which
\* joins the worker thread still inside call_gemini
judge_timeout ==
    /\ run.pc = "future_result"
    /\ run.judge = "running"
    /\ run' = [run EXCEPT !.pc = "executor_exit", !.timedOut = TRUE]
    /\ UNCHANGED <<ingestion, call, main_mode, config, db, queue, runs>>

\* the abandoned call ends, shutdown returns, and the except clause
\* returns the fallback
executor_exit ==
    /\ run.pc = "executor_exit"
    /\ run' = AfterDecision(_intelligent_fallback(Ev.disaster_type, Ev.raw),
                            [run EXCEPT !.judge = "done"])
    /\ UNCHANGED <<ingestion, call, main_mode, config, db, queue, runs>>

(***************************************************************************)
(* Payout pipeline (main.py process_event_pipeline)                        *)
(***************************************************************************)
\* "Extract strict YES/NO authorization", main.py
Authorization(decision_data) ==
    LET a == upper(strip(decision_data.authorization))
    IN  IF a \in {W_YES, W_NO} THEN a ELSE W_NO

\* DecisionResponse.payout_amount_usdc
PayoutText(decision_data) ==
    PyStr(Get(decision_data.payout_amount_usdc, Str(<<"0">>)))

\* mutant: the gate tests the two fields for truthiness only
Authorized_Truthy(authorization, decision) == authorization # <<>> /\ decision # ""

\* the gate in front of recipient selection
Authorized(authorization, decision) == authorization = W_YES /\ decision = "PAYOUT"

\* authorization, DecisionResponse(...), the STEP 2 log, and for a denied
\* event the STEP 3 log and the return
authorize ==
    /\ run.pc = "decided"
    /\ LET d == run.decision_data
           authorization == Authorization(d)
           conf == PyFloat(Get(d.confidence_score, Num(0)))
           r == [run EXCEPT !.authorization = authorization, !.judge = "none",
                            !.timedOut = FALSE, !.resp = NoResponse]
       IN  run' = IF ~conf.ok
                  THEN [r EXCEPT !.pc = "raised", !.error = "DecisionResponse"]
                  ELSE IF Authorized(authorization, d.decision)
                  THEN [r EXCEPT !.pc = "select", !.decision = d.decision,
                                 !.trace = Append(@, "AUTHORIZED")]
                  ELSE [r EXCEPT !.pc = "done", !.decision = d.decision,
                                 !.status = "completed",
                                 !.trace = Append(@, "DENIED")]
    /\ UNCHANGED <<ingestion, call, main_mode, config, db, queue, runs>>

\* run.ngo_selected refers to an entry of _ngos by its position; 0 is None
Ref(ngo) == CHOOSE i \in 1..Len(_ngos) : _ngos[i] = ngo

Selected(r) == IF r.ngo_selected = 0 THEN NoNGO ELSE _ngos[r.ngo_selected]

\* ngo_manager.select_recipient(...), and the return on None
select ==
    /\ run.pc = "select"
    /\ LET ngo == select_recipient(_ngos, Ev.disaster_type, Ev.location)
       IN  run' = IF ngo = NoNGO
                  THEN [run EXCEPT !.pc = "done", !.status = "failed_no_ngo",
                                   !.trace = Append(@, "NO_NGO")]
                  ELSE [run EXCEPT !.pc = "validate", !.ngo_selected = Ref(ngo),
                                   !.trace = Append(@, "SELECTED")]
    /\ UNCHANGED <<ingestion, call, main_mode, config, db, queue, runs>>

\* mutant: the return after a failed validation is missing
validate_NoReturn ==
    /\ run.pc = "validate"
    /\ run' = [run EXCEPT !.pc = "disburse",
                          !.valid = validate_address(_ngos, Selected(run).address),
                          !.trace = Append(@, "VALID")]
    /\ UNCHANGED <<ingestion, call, main_mode, config, db, queue, runs>>

\* ngo_manager.validate_address(ngo_selected.address), and the return on
\* an invalid address; the "STEP 3: NGO SELECTED" log is written once the
\* address has been accepted
validate ==
    /\ run.pc = "validate"
    /\ run' = IF validate_address(_ngos, Selected(run).address)
              THEN [run EXCEPT !.pc = "disburse", !.valid = TRUE,
                               !.trace = Append(Append(@, "VALID"), "NGO_SELECTED")]
              ELSE [run EXCEPT !.pc = "done", !.status = "failed_validation",
                               !.trace = Append(@, "INVALID")]
    /\ UNCHANGED <<ingestion, call, main_mode, config, db, queue, runs>>

\* STEP 4 without a chain transaction: MOCK mode, or LIVE mode with an
\* incomplete blockchain configuration
disburse_mock ==
    /\ run.pc = "disburse"
    /\ main_mode = "MOCK" \/ ~blockchain_configured
    /\ run' = [run EXCEPT !.pc = "record", !.tx_hash = "mock",
                          !.trace = Append(@, "TX_INIT")]
    /\ UNCHANGED <<ingestion, call, main_mode, config, db, queue, runs>>

\* STEP 4 in LIVE mode: amount_units = int(float(payout_amount_usdc) * 1e6)
\* raises for a text that is no number, before the sink is reached
disburse_bad_amount ==
    /\ run.pc = "disburse"
    /\ main_mode # "MOCK" /\ blockchain_configured
    /\ ~PyFloat(Str(PayoutText(run.decision_data))).ok
    /\ run' = [run EXCEPT !.pc = "done", !.status = "failed_transaction",
                          !.trace = Append(Append(@, "TX_INIT"), "TX_FAILED")]
    /\ UNCHANGED <<ingestion, call, main_mode, config, db, queue, runs>>

\* mutant: a failed send_payout is tried again
send_payout_Retry(hash) ==
    /\ run.pc = "disburse"
    /\ main_mode # "MOCK" /\ blockchain_configured
    /\ PyFloat(Str(PayoutText(run.decision_data))).ok
    /\ run.sinkCalls < 3
    /\ LET r == [run EXCEPT !.sinkCalls = @ + 1,
                            !.trace = Append(Append(@, "TX_INIT"), "SINK")]
       IN  run' = IF hash THEN [r EXCEPT !.pc = "record", !.tx_hash = "real"] ELSE r
    /\ UNCHANGED <<ingestion, call, main_mode, config, db, queue, runs>>

\* mutant: the chain configuration is not looked at
send_payout_Unconfigured(hash) ==
    /\ run.pc = "disburse"
    /\ main_mode # "MOCK"
    /\ PyFloat(Str(PayoutText(run.decision_data))).ok
    /\ LET r == [run EXCEPT !.sinkCalls = @ + 1,
                            !.trace = Append(Append(@, "TX_INIT"), "SINK")]
       IN  run' = IF hash
                  THEN [r EXCEPT !.pc = "record", !.tx_hash = "real"]
                  ELSE [r EXCEPT !.pc = "done", !.status = "failed_transaction",
                                 !.trace = Append(@, "TX_FAILED")]
    /\ UNCHANGED <<ingestion, call, main_mode, config, db, queue, runs>>

\* transactor.send_payout(...): hash is FALSE when the sink returns None
\* (send_payout catches every exception of its own and returns None); the
\* run then writes the "BLOCKCHAIN TRANSACTION FAILED" log and returns
send_payout(hash) ==
    /\ run.pc = "disburse"
    /\ main_mode # "MOCK" /\ blockchain_configured
    /\ PyFloat(Str(PayoutText(run.decision_data))).ok
    /\ LET r == [run EXCEPT !.sinkCalls = @ + 1,
                            !.trace = Append(Append(@, "TX_INIT"), "SINK")]
       IN  run' = IF hash
                  THEN [r EXCEPT !.pc = "record", !.tx_hash = "real"]
                  ELSE [r EXCEPT !.pc = "done", !.status = "failed_transaction",
                                 !.trace = Append(@, "TX_FAILED")]
    /\ UNCHANGED <<ingestion, call, main_mode, config, db, queue, runs>>

\* the SentinelEventDB row of a payout
\* (ev stands for the event's fields stored in the row)
PayoutRow(r) ==
    [ev |-> r.ev, payout_tx |-> r.tx_hash,
     payout_amount |-> PayoutText(r.decision_data),
     ngo_id |-> Selected(r).id]

\* decision.tx_hash = tx_hash, the STEP 5 logs and the SentinelEventDB row
record ==
    /\ run.pc = "record"
    /\ db' = Append(db, PayoutRow(run))
    /\ run' = [run EXCEPT !.pc = "done", !.status = "completed",
                          !.trace = Append(@, "RECORDED")]
    /\ UNCHANGED <<ingestion, call, main_mode, config, queue, runs>>

\* the call has returned (or raised) to its handler
return ==
    /\ run.pc \in {"done", "raised"}
    /\ run' = IdleRun
    /\ UNCHANGED <<ingestion, call, main_mode, config, db, queue, runs>>

Next ==
    \/ \E m \in {"MOCK", "LIVE"} : toggle_mode(m)
    \/ simulate
    \/ simulate_next
    \/ \E i \in AnalyzeRequests : analyze(i)
    \/ get_ai_decision_mock
    \/ get_ai_decision_nokey
    \/ judge_submit
    \/ \E resp \in JudgeResponses : judge_answers(resp)
    \/ judge_fails
    \/ judge_timeout
    \/ executor_exit
    \/ authorize
    \/ select
    \/ validate
    \/ disburse_mock
    \/ disburse_bad_amount
    \/ \E hash \in BOOLEAN : send_payout(hash)
    \/ record
    \/ return

Spec == Init /\ [][Next]_vars

\* a step between the disbursement and the commit of the row raises (the
\* log store, the session, the row itself): except Exception, the
\* "PAYOUT FAILED" log, status failed; the row is not written
payout_failed ==
    /\ run.pc = "record"
    /\ run' = [run EXCEPT !.pc = "done", !.status = "failed",
                          !.trace = Append(@, "PAYOUT_FAILED")]
    /\ UNCHANGED <<ingestion, call, main_mode, config, db, queue, runs>>

\* the pipeline with a store that can fail
StoreFailSpec == Init /\ [][Next \/ payout_failed]_vars

TypeOK ==
    /\ main_mode \in {"MOCK", "LIVE"}
    /\ run.pc \in {"idle", "detected", "future_result", "executor_exit", "decided",
                   "select", "validate", "disburse", "record", "done", "raised"}
    /\ runs \in 0..MaxRuns
    /\ Len(db) <= runs

(***************************************************************************)
(* Ingestion switchboard (services/ingestion.py)                           *)
(***************************************************************************)
\* IngestionSwitchboard.ingest calls made in one behaviour
MaxIngests == 1

Exc(type, code) == [type |-> type, code |-> code]

\* the body of a response: "feed" is a document of the feed's own shape,
\* whose items give the events listed; "unparseable" is no XML and no JSON;
\* "other" is a document of another shape (a JSON array, another XML root)
Body(shape, events) == [shape |-> shape, events |-> events]

\* the server answered
HttpResponse(status_code, body) == [exc |-> "none", status_code |-> status_code, body |-> body]

\* client.get raised
TransportError(type) == [exc |-> type, status_code |-> 0, body |-> Body("none", <<>>)]

\* client.get(...) followed by response.raise_for_status(): the exception
\* raised, NoExc if none
Request(resp) ==
    IF resp.exc # "none" THEN Exc(resp.exc, 0)
    ELSE IF resp.status_code >= 400 THEN Exc("HTTPStatusError", resp.status_code)
    ELSE NoExc

\* ingestion.py _http_status_label
_http_status_label(name, exc) ==
    IF exc.type = "HTTPStatusError"
    THEN IF exc.code \in {401, 403} THEN name \o <<":"," ","U","n","a","u","t","h","o","r","i","z","e","d"," ","(","c","h","e","c","k"," ","A","P","I"," ","k","e","y"," ","/"," ","p","l","a","n",")">>
         ELSE IF exc.code = 429 THEN name \o <<":"," ","R","a","t","e"," ","L","i","m","i","t","e","d">>
         ELSE IF exc.code = 406 THEN name \o <<":"," ","N","o","t"," ","A","c","c","e","p","t","a","b","l","e"," ","(","b","a","d"," ","A","c","c","e","p","t"," ","h","e","a","d","e","r",")">>
         ELSE name \o <<":"," ","H","T","T","P"," ">> \o NatStr(exc.code)
    ELSE IF exc.type \in {"ReadTimeout", "ConnectTimeout"} THEN name \o <<":"," ","T","i","m","e","o","u","t">>
    ELSE name \o <<":"," ","S","i","g","n","a","l"," ","L","o","s","t">>

\* _get_json_with_retries sleeping after the last attempt as well
_get_json_with_retries_SleepAfterLast(resps, retries) ==
    LET RECURSIVE Attempts(_, _)
        Attempts(attempt, sleeps) ==
            LET resp == resps[attempt + 1]
                exc == IF Request(resp) # NoExc THEN Request(resp)
                       ELSE IF resp.body.shape = "unparseable" THEN Exc("JSONDecodeError", 0)
                       ELSE NoExc
            IN  IF exc = NoExc
                THEN [exc |-> NoExc, payload |-> resp.body, requests |-> attempt + 1,
                      sleeps |-> sleeps]
                ELSE IF attempt < retries
                THEN Attempts(attempt + 1, Append(sleeps, 35 * (attempt + 1)))
                ELSE [exc |-> exc, payload |-> Body("none", <<>>), requests |-> attempt + 1,
                      sleeps |-> Append(sleeps, 35 * (attempt + 1))]
    IN  Attempts(0, <<>>)

\* ingestion.py _get_json_with_retries: exc is what it raises, NoExc when it
\* returns payload; resps[k] answers the k-th request; sleeps are in 1/100 s
_get_json_with_retries(resps, retries) ==
    LET RECURSIVE Attempts(_, _)
        Attempts(attempt, sleeps) ==
            LET resp == resps[attempt + 1]
                exc == IF Request(resp) # NoExc THEN Request(resp)
                       ELSE IF resp.body.shape = "unparseable" THEN Exc("JSONDecodeError", 0)
                       ELSE NoExc
            IN  IF exc = NoExc
                THEN [exc |-> NoExc, payload |-> resp.body, requests |-> attempt + 1,
                      sleeps |-> sleeps]
                ELSE IF attempt < retries
                THEN Attempts(attempt + 1, Append(sleeps, 35 * (attempt + 1)))
                ELSE [exc |-> exc, payload |-> Body("none", <<>>), requests |-> attempt + 1,
                      sleeps |-> sleeps]
    IN  Attempts(0, <<>>)

\* what an adapter returns: (events, status); cause is the exception that
\* made it fail, raised the exception that left it
Fetched(events, status, cause) ==
    [events |-> events, status |-> status, cause |-> cause, raised |-> NoExc]

Escaped(exc) == [events |-> <<>>, status |-> <<>>, cause |-> exc, raised |-> exc]

\* IngestionSwitchboard.fetch_gdacs
fetch_gdacs(resp) ==
    LET exc == Request(resp)
        events == resp.body.events
    IN  IF exc # NoExc THEN Fetched(<<>>, _http_status_label(<<"G","D","A","C","S">>, exc), exc)
        ELSE IF resp.body.shape = "unparseable"
        THEN Fetched(<<>>, <<"G","D","A","C","S",":"," ","P","a","r","s","e"," ","E","r","r","o","r">>, Exc("ParseError", 0))
        ELSE IF events # <<>>
        THEN Fetched(events, <<"G","D","A","C","S",":"," ">> \o NatStr(Len(events)) \o <<" ","s","i","g","n","i","f","i","c","a","n","t"," ","a","l","e","r","t","s">>, NoExc)
        ELSE Fetched(<<>>, <<"G","D","A","C","S",":"," ","N","o"," ","R","e","d","/","O","r","a","n","g","e"," ","a","l","e","r","t","s">>, NoExc)

\* IngestionSwitchboard.fetch_eonet: payload.get(...) is outside the try
fetch_eonet(resps) ==
    LET got == _get_json_with_retries(resps, 2)
        events == got.payload.events
    IN  IF got.exc # NoExc THEN Fetched(<<>>, _http_status_label(<<"E","O","N","E","T">>, got.exc), got.exc)
        ELSE IF got.payload.shape # "feed" THEN Escaped(Exc("AttributeError", 0))
        ELSE IF events # <<>>
        THEN Fetched(events, <<"E","O","N","E","T",":"," ">> \o NatStr(Len(events)) \o <<" ","e","v","e","n","t","s">>, NoExc)
        ELSE Fetched(<<>>, <<"E","O","N","E","T",":"," ","Q","u","i","e","t">>, NoExc)

HIGH_RISK_ZONES_US == <<"Miami", "Houston", "New Orleans", "Tampa">>

\* IngestionSwitchboard.fetch_nws: the query of all active alerts, then,
\* if it failed, one point query per zone, a failing zone being skipped
fetch_nws(resps, zones) ==
    LET got == _get_json_with_retries(resps, 2)
        last_exc == IF got.exc # NoExc THEN got.exc ELSE Exc("AttributeError", 0)
        all == got.payload.events
        events == SubSeq(all, 1, IF Len(all) < 20 THEN Len(all) ELSE 20)
        RECURSIVE ZoneEvents(_)
        ZoneEvents(z) ==
            IF z > Len(HIGH_RISK_ZONES_US) THEN <<>>
            ELSE LET zone == _get_json_with_retries(zones[z], 1)
                 IN  (IF zone.exc = NoExc /\ zone.payload.shape = "feed"
                      THEN zone.payload.events ELSE <<>>) \o ZoneEvents(z + 1)
        zone_events == ZoneEvents(1)
    IN  IF got.exc = NoExc /\ got.payload.shape = "feed"
        THEN IF events # <<>>
             THEN Fetched(events, <<"N","W","S",":"," ">> \o NatStr(Len(events)) \o <<" ","s","i","g","n","i","f","i","c","a","n","t"," ","a","l","e","r","t","s">>, NoExc)
             ELSE Fetched(<<>>, <<"N","W","S",":"," ","N","o"," ","w","a","r","n","i","n","g","s">>, NoExc)
        ELSE IF zone_events = <<>>
        THEN Fetched(<<>>, _http_status_label(<<"N","W","S">>, last_exc), last_exc)
        ELSE Fetched(zone_events, <<"N","W","S",":"," ">> \o NatStr(Len(zone_events)) \o <<" ","a","l","e","r","t","s">>, NoExc)

\* data/scenarios.json: missing, unparseable, of another shape than a list
\* of objects ("other"), or a list of scenarios
File(state, scenarios) == [state |-> state, scenarios |-> scenarios]

ScenarioFiles ==
    { File("ok", MockScenarios), File("ok", <<2, 1>>), File("ok", <<>>),
      File("missing", <<>>), File("unparseable", <<>>), File("other", <<>>) }

\* load_mock_scenarios raising where the file is unparseable
load_mock_scenarios_Strict(file) ==
    IF file.state = "missing" THEN Fetched(<<>>, <<"M","o","c","k",":"," ","s","c","e","n","a","r","i","o","s"," ","f","i","l","e"," ","m","i","s","s","i","n","g">>, NoExc)
    ELSE IF file.state \in {"unparseable", "other"} THEN Escaped(Exc("JSONDecodeError", 0))
    ELSE Fetched(file.scenarios,
                 <<"M","o","c","k",":"," ">> \o NatStr(Len(file.scenarios)) \o <<" ","s","c","e","n","a","r","i","o","s"," ","l","o","a","d","e","d">>, NoExc)

\* IngestionSwitchboard.load_mock_scenarios
load_mock_scenarios(file) ==
    IF file.state = "missing" THEN Fetched(<<>>, <<"M","o","c","k",":"," ","s","c","e","n","a","r","i","o","s"," ","f","i","l","e"," ","m","i","s","s","i","n","g">>, NoExc)
    ELSE IF file.state = "unparseable" THEN Fetched(<<>>, <<"M","o","c","k",":"," ","P","a","r","s","e"," ","E","r","r","o","r">>, NoExc)
    ELSE IF file.state = "other" THEN Escaped(Exc("AttributeError", 0))
    ELSE Fetched(file.scenarios,
                 <<"M","o","c","k",":"," ">> \o NatStr(Len(file.scenarios)) \o <<" ","s","c","e","n","a","r","i","o","s"," ","l","o","a","d","e","d">>, NoExc)

\* the answers of the feeds during one ingest: one to the GDACS request,
\* one to each request of the EONET and NWS queries, and for every zone
\* one to each request of its point query
Networks ==
    LET Feed(events) == HttpResponse(200, Body("feed", events))
        Status(code) == HttpResponse(code, Body("none", <<>>))
        Failing ==
            { Status(c) : c \in {401, 403, 429, 406, 500} }
            \cup { TransportError(t) : t \in {"ReadTimeout", "ConnectTimeout", "ConnectError"} }
            \cup { HttpResponse(200, Body("unparseable", <<>>)),
                   HttpResponse(200, Body("other", <<>>)) }
        Always(resp, n) == [k \in 1..n |-> resp]
        AllZones(resps) == [z \in 1..Len(HIGH_RISK_ZONES_US) |-> resps]
        Healthy ==
            [gdacs |-> Feed(<<7>>), eonet |-> Always(Feed(<<3>>), 3),
             nws |-> Always(Feed(<<4, 4>>), 3), zones |-> AllZones(Always(Feed(<<>>), 2))]
        Quiet ==
            [gdacs |-> Feed(<<>>), eonet |-> Always(Feed(<<>>), 3),
             nws |-> Always(Feed(<<>>), 3), zones |-> AllZones(Always(Feed(<<>>), 2))]
    IN  { Healthy, Quiet }
        \cup { [Healthy EXCEPT !.gdacs = r] : r \in Failing }
        \cup { [Healthy EXCEPT !.eonet = Always(r, 3)] : r \in Failing }
        \cup { [Healthy EXCEPT !.nws = Always(r, 3), !.zones = AllZones(Always(r, 2))] :
                 r \in Failing }
        \cup { [Healthy EXCEPT !.nws = Always(r, 3), !.zones[1] = <<r, Feed(<<4>>)>>] :
                 r \in { Status(429), TransportError("ConnectError") } }
        \cup { [Healthy EXCEPT !.nws = Always(TransportError("ReadTimeout"), 3)],
               [Healthy EXCEPT !.eonet = <<TransportError("ConnectError"), Feed(<<3>>),
                                           Feed(<<3>>)>>],
               [Quiet EXCEPT !.gdacs = TransportError("ConnectError"),
                             !.eonet = Always(TransportError("ReadTimeout"), 3),
                             !.nws = Always(Status(500), 3),
                             !.zones = AllZones(Always(TransportError("ConnectError"), 2))] }

\* IngestionSwitchboard() and the entry into ingest() for a caller
Ingest(caller) ==
    [IdleSwitchboard EXCEPT !.pc = "ingest", !.caller = caller, !.mode = main_mode]

\* ingest() in MOCK mode
ingest_mock(file) ==
    /\ switchboard.pc = "ingest"
    /\ main_mode = "MOCK"
    /\ LET r == load_mock_scenarios(file)
       IN  switchboard' =
              IF r.raised # NoExc
              THEN [switchboard EXCEPT !.pc = "raised", !.raised = r.raised,
                                       !.file = file]
              ELSE [switchboard EXCEPT !.pc = "returned", !.file = file,
                                       !.events = r.events,
                                       !.logs = <<r.status, <<"A","w","a","i","t","i","n","g"," ","s","i","m","u","l","a","t","i","o","n"," ","t","r","i","g","g","e","r">>>>]
    /\ UNCHANGED <<main_mode, queue, pipeline, call, SentinelLog, now, poller, SOURCE_STATUS_CACHE,
                   LIVE_EVENT_CACHE, request, ingests>>

\* ingest() in LIVE mode: the three adapters in turn, then the result; an
\* exception an adapter raises leaves ingest()
ingest_live(net) ==
    /\ switchboard.pc = "ingest"
    /\ main_mode # "MOCK"
    /\ LET Leave(sw, r, adapter) ==
               LET calls == [sw.calls EXCEPT ![adapter] = @ + 1]
                   results == Append(sw.results, [adapter |-> adapter, events |-> r.events,
                                                  status |-> r.status, cause |-> r.cause])
               IN  IF r.raised # NoExc
                   THEN [sw EXCEPT !.pc = "raised", !.raised = r.raised, !.calls = calls]
                   ELSE [sw EXCEPT !.calls = calls, !.results = results]
           sw1 == Leave(switchboard, fetch_gdacs(net.gdacs), "gdacs")
           sw2 == IF sw1.pc = "raised" THEN sw1
                  ELSE Leave(sw1, fetch_eonet(net.eonet), "eonet")
           sw3 == IF sw2.pc = "raised" THEN sw2
                  ELSE Leave(sw2, fetch_nws(net.nws, net.zones), "nws")
       IN  switchboard' =
              IF sw3.pc = "raised" THEN sw3
              ELSE [sw3 EXCEPT !.pc = "returned",
                               !.events = sw3.results[1].events \o sw3.results[2].events
                                          \o sw3.results[3].events,
                               !.logs = <<sw3.results[1].status, sw3.results[2].status,
                                          sw3.results[3].status>>]
    /\ UNCHANGED <<main_mode, queue, pipeline, call, SentinelLog, now, poller, SOURCE_STATUS_CACHE,
                   LIVE_EVENT_CACHE, request, ingests>>

(***************************************************************************)
(* The callers of ingest(): poller, /simulate and /live/ingest (main.py)   *)
(***************************************************************************)
\* background_poller, a cycle in which the mode is not LIVE: sleep
poller_idle ==
    /\ poller.pc = "sleep"
    /\ switchboard.pc = "idle"
    /\ ~JudgeWait
    /\ main_mode # "LIVE"
    /\ poller' = [IdlePoller EXCEPT !.cycle_mode = main_mode]
    /\ UNCHANGED <<main_mode, queue, pipeline, call, SentinelLog, now, switchboard, SOURCE_STATUS_CACHE,
                   LIVE_EVENT_CACHE, request, ingests>>

\* background_poller calling ingest() whatever the mode
poller_poll_AnyMode ==
    /\ poller.pc = "sleep"
    /\ switchboard.pc = "idle"
    /\ ~JudgeWait
    /\ ingests < MaxIngests
    /\ ingests' = ingests + 1
    /\ poller' = [IdlePoller EXCEPT !.pc = "ingest", !.cycle_mode = main_mode,
                                   !.called = TRUE]
    /\ switchboard' = Ingest("poller")
    /\ UNCHANGED <<main_mode, queue, pipeline, call, SentinelLog, now, SOURCE_STATUS_CACHE,
                   LIVE_EVENT_CACHE, request>>

\* background_poller, a cycle in LIVE mode: switchboard.ingest()
poller_poll ==
    /\ poller.pc = "sleep"
    /\ switchboard.pc = "idle"
    /\ ~JudgeWait
    /\ main_mode = "LIVE"
    /\ ingests < MaxIngests
    /\ ingests' = ingests + 1
    /\ poller' = [IdlePoller EXCEPT !.pc = "ingest", !.cycle_mode = main_mode,
                                   !.called = TRUE]
    /\ switchboard' = Ingest("poller")
    /\ UNCHANGED <<main_mode, queue, pipeline, call, SentinelLog, now, SOURCE_STATUS_CACHE,
                   LIVE_EVENT_CACHE, request>>

RECURSIVE UpdateStatus(_, _, _)
\* background_poller, "Update source status cache from logs"
UpdateStatus(cache, logs, events) ==
    IF logs = <<>> THEN cache
    ELSE LET log_lower == lower(Head(logs))
             StatusEntry(name, log_text, evs) ==
                 LET IsFrom(i) == Events[i].source = name
                 IN  [status |-> IF ~contains(<<"s","i","g","n","a","l"," ","l","o","s","t">>, log_lower)
                                 THEN "ok" ELSE "error",
                      events |-> Len(SelectSeq(evs, IsFrom)),
                      message |-> log_text]
             next == IF contains(<<"g","d","a","c","s">>, log_lower)
                     THEN [cache EXCEPT !.gdacs = StatusEntry(<<"g","d","a","c","s">>, Head(logs), events)]
                     ELSE IF contains(<<"e","o","n","e","t">>, log_lower)
                     THEN [cache EXCEPT !.eonet = StatusEntry(<<"e","o","n","e","t">>, Head(logs), events)]
                     ELSE IF contains(<<"n","w","s">>, log_lower)
                     THEN [cache EXCEPT !.nws = StatusEntry(<<"n","w","s">>, Head(logs), events)]
                     ELSE cache
         IN  UpdateStatus(next, Tail(logs), events)

RECURSIVE CacheEvents_BySource(_, _)
\* mutant: the cache is keyed by the source of the event
CacheEvents_BySource(cache, events) ==
    IF events = <<>> THEN cache
    ELSE LET eid == _event_id(Events[Head(events)])
             entry == [key |-> Events[Head(events)].source, id |-> eid, ev |-> Head(events)]
         IN  CacheEvents_BySource({c \in cache : c.key # entry.key} \cup {entry},
                                  Tail(events))

RECURSIVE CacheEvents(_, _)
\* LIVE_EVENT_CACHE[eid] = _event_out(event, eid) for every event in turn
CacheEvents(cache, events) ==
    IF events = <<>> THEN cache
    ELSE LET eid == _event_id(Events[Head(events)])
             entry == [key |-> eid, id |-> eid, ev |-> Head(events)]
         IN  CacheEvents({c \in cache : c.key # eid} \cup {entry}, Tail(events))

\* background_poller after ingest() returned: the source status cache
poller_update ==
    /\ switchboard.caller = "poller"
    /\ switchboard.pc = "returned"
    /\ SOURCE_STATUS_CACHE' =
          UpdateStatus(SOURCE_STATUS_CACHE, switchboard.logs, switchboard.events)
    /\ poller' = [poller EXCEPT !.pc = "persist", !.wrote = TRUE,
                                !.events = switchboard.events]
    /\ switchboard' = IdleSwitchboard
    /\ UNCHANGED <<main_mode, queue, pipeline, call, SentinelLog, now, LIVE_EVENT_CACHE, request, ingests>>

\* background_poller inside the session: the status logs and the event cache
poller_persist ==
    /\ poller.pc = "persist"
    /\ switchboard.pc = "idle"
    /\ ~JudgeWait
    /\ LIVE_EVENT_CACHE' = CacheEvents(LIVE_EVENT_CACHE, poller.events)
    /\ poller' = [poller EXCEPT !.pc = "sleep", !.events = <<>>]
    /\ UNCHANGED <<main_mode, queue, pipeline, call, SentinelLog, now, switchboard, SOURCE_STATUS_CACHE,
                   request, ingests>>

\* background_poller, except Exception: the cycle ends
poller_failed ==
    /\ switchboard.caller = "poller"
    /\ switchboard.pc = "raised"
    /\ poller' = [poller EXCEPT !.pc = "sleep"]
    /\ switchboard' = IdleSwitchboard
    /\ UNCHANGED <<main_mode, queue, pipeline, call, SentinelLog, now, SOURCE_STATUS_CACHE,
                   LIVE_EVENT_CACHE, request, ingests>>

\* GET /live/ingest: 400 outside LIVE mode, else switchboard.ingest()
live_ingest ==
    /\ request.pc = "idle"
    /\ switchboard.pc = "idle"
    /\ ~JudgeWait
    /\ IF main_mode # "LIVE"
       THEN /\ request' = [IdleRequest EXCEPT !.handler = "live_ingest", !.status_code = 400]
            /\ UNCHANGED <<switchboard, ingests>>
       ELSE /\ ingests < MaxIngests
            /\ ingests' = ingests + 1
            /\ request' = [IdleRequest EXCEPT !.pc = "ingest", !.handler = "live_ingest"]
            /\ switchboard' = Ingest("live_ingest")
    /\ UNCHANGED <<main_mode, queue, pipeline, call, SentinelLog, now, poller, SOURCE_STATUS_CACHE,
                   LIVE_EVENT_CACHE>>

\* POST /simulate up to switchboard.ingest()
simulate_ingest(scenario_type) ==
    /\ request.pc = "idle"
    /\ switchboard.pc = "idle"
    /\ ~JudgeWait
    /\ queue = <<>>
    /\ ingests < MaxIngests
    /\ ingests' = ingests + 1
    /\ request' = [IdleRequest EXCEPT !.pc = "ingest", !.handler = "simulate",
                                     !.scenario_type = scenario_type]
    /\ switchboard' = Ingest("simulate")
    /\ UNCHANGED <<main_mode, queue, pipeline, call, SentinelLog, now, poller, SOURCE_STATUS_CACHE,
                   LIVE_EVENT_CACHE>>

\* ingest() returned to the handler: /simulate filters the events and
\* starts its loop over them, /live/ingest goes on to persist the logs
request_ingested ==
    /\ switchboard.caller = request.handler
    /\ switchboard.pc = "returned"
    /\ switchboard' = IdleSwitchboard
    /\ IF request.handler = "simulate"
       THEN /\ queue' = events_to_process(switchboard.events, request.scenario_type)
            /\ request' = [IdleRequest EXCEPT !.handler = "simulate", !.status_code = 200]
       ELSE /\ request' = [request EXCEPT !.pc = "persist", !.events = switchboard.events]
            /\ UNCHANGED queue
    /\ UNCHANGED <<main_mode, pipeline, call, SentinelLog, now, poller, SOURCE_STATUS_CACHE,
                   LIVE_EVENT_CACHE, ingests>>

\* GET /live/ingest after the logs are persisted: the event cache, the reply
live_ingest_cache ==
    /\ request.pc = "persist"
    /\ switchboard.pc = "idle"
    /\ ~JudgeWait
    /\ LIVE_EVENT_CACHE' = CacheEvents(LIVE_EVENT_CACHE, request.events)
    /\ request' = [IdleRequest EXCEPT !.handler = "live_ingest", !.status_code = 200]
    /\ UNCHANGED <<main_mode, queue, pipeline, call, SentinelLog, now, switchboard, poller,
                   SOURCE_STATUS_CACHE, ingests>>

\* ingest() raised into the handler: the request fails
request_failed ==
    /\ switchboard.caller = request.handler
    /\ switchboard.pc = "raised"
    /\ switchboard' = IdleSwitchboard
    /\ request' = [IdleRequest EXCEPT !.handler = request.handler, !.status_code = 500]
    /\ UNCHANGED <<main_mode, queue, pipeline, call, SentinelLog, now, poller, SOURCE_STATUS_CACHE,
                   LIVE_EVENT_CACHE, ingests>>

IngestNext ==
    \/ \E m \in {"MOCK", "LIVE"} : toggle_mode(m)
    \/ poller_idle
    \/ poller_poll
    \/ poller_update
    \/ poller_persist
    \/ poller_failed
    \/ live_ingest
    \/ \E scenario_type \in ScenarioTypes : simulate_ingest(scenario_type)
    \/ \E file \in ScenarioFiles : ingest_mock(file)
    \/ \E net \in Networks : ingest_live(net)
    \/ request_ingested
    \/ live_ingest_cache
    \/ request_failed

\* the switchboard with its callers
IngestSpec == Init /\ [][IngestNext]_vars

(***************************************************************************)
(* The poller and /live/ingest with the log table (main.py)                *)
(***************************************************************************)
\* the lifetime of the clock; at MaxMinutes the clock stays where it is
MaxMinutes == 6

\* GET /live/ingest requests made
MaxRequests == 1

\* asyncio.sleep(60)
Tick == IF now < MaxMinutes THEN now + 1 ELSE now

\* IngestionSwitchboard().ingest() in LIVE mode, as a call: the three
\* adapters in turn; an exception an adapter raises leaves ingest()
ingest(net) ==
    LET gdacs == fetch_gdacs(net.gdacs)
        eonet == fetch_eonet(net.eonet)
        nws == fetch_nws(net.nws, net.zones)
        raised == IF gdacs.raised # NoExc THEN gdacs.raised
                  ELSE IF eonet.raised # NoExc THEN eonet.raised ELSE nws.raised
    IN  IF raised # NoExc THEN [raised |-> raised, events |-> <<>>, logs |-> <<>>]
        ELSE [raised |-> NoExc, events |-> gdacs.events \o eonet.events \o nws.events,
              logs |-> <<gdacs.status, eonet.status, nws.status>>]

\* what the feeds answer over the cycles: the same events again, other
\* events (one of them with the fingerprint of an earlier one), and an
\* EONET body that is not an object
LiveNetworks ==
    LET Feed(events) == HttpResponse(200, Body("feed", events))
        Always(resp, n) == [k \in 1..n |-> resp]
        NoZones == [z \in 1..Len(HIGH_RISK_ZONES_US) |-> Always(Feed(<<>>), 2)]
        Healthy == [gdacs |-> Feed(<<7>>), eonet |-> Always(Feed(<<3>>), 3),
                    nws |-> Always(Feed(<<4, 4>>), 3), zones |-> NoZones]
    IN  { Healthy,
          [Healthy EXCEPT !.gdacs = Feed(<<8>>), !.eonet = Always(Feed(<<10>>), 3),
                          !.nws = Always(Feed(<<9, 9>>), 3)],
          [Healthy EXCEPT !.eonet = Always(HttpResponse(200, Body("other", <<>>)), 3)] }

\* what ingest() returns for each of them
LiveResults == [net \in LiveNetworks |-> ingest(net)]

\* a SentinelLog row: timestamp is datetime.utcnow at construction
LogRow(text, by) == [text |-> text, timestamp |-> now, by |-> by]

\* background_poller at the top of its loop: the mode test with its sleep,
\* or IngestionSwitchboard() and the call of ingest(), during which the
\* event loop runs nothing else
poll_cycle ==
    /\ poller.pc = "sleep"
    /\ switchboard.pc = "idle"
    /\ ~JudgeWait
    /\ IF main_mode # "LIVE"
       THEN /\ poller' = [IdlePoller EXCEPT !.cycle_mode = main_mode]
            /\ now' = Tick
            /\ UNCHANGED switchboard
       ELSE /\ poller' = [IdlePoller EXCEPT !.pc = "ingest", !.cycle_mode = main_mode,
                                            !.called = TRUE]
            /\ switchboard' = Ingest("poller")
            /\ UNCHANGED now
    /\ UNCHANGED <<main_mode, queue, pipeline, call, SOURCE_STATUS_CACHE,
                   LIVE_EVENT_CACHE, request, ingests, SentinelLog>>

\* background_poller from the return of ingest() to the first await of the
\* session block: the source status cache; an exception of ingest() goes to
\* the except clause
poll_ingest(net) ==
    /\ poller.pc = "ingest"
    /\ LET result == LiveResults[net]
       IN  /\ poller' =
                 IF result.raised # NoExc
                 THEN [poller EXCEPT !.pc = "failed"]
                 ELSE [poller EXCEPT !.pc = "check", !.events = result.events,
                                     !.logs = result.logs]
           /\ SOURCE_STATUS_CACHE' =
                 IF result.raised # NoExc THEN SOURCE_STATUS_CACHE
                 ELSE UpdateStatus(SOURCE_STATUS_CACHE, result.logs, result.events)
    /\ switchboard' = IdleSwitchboard
    /\ UNCHANGED <<main_mode, queue, pipeline, call, LIVE_EVENT_CACHE,
                   request, ingests, SentinelLog, now>>

\* background_poller, one log line of the session block: session.execute
\* first flushes the rows added so far (from then on the session holds the
\* write lock of the database), then looks for a row with this text in the
\* last five minutes; after the last line the events go to the cache
poll_check ==
    /\ poller.pc = "check"
    /\ ~JudgeWait
    /\ LET log_text == Head(poller.logs)
           log_lower == lower(log_text)
           status_line == \E x \in {<<"g","d","a","c","s">>, <<"e","o","n","e","t">>, <<"n","w","s">>, <<"s","i","g","n","a","l"," ","l","o","s","t">>,
                                    <<"q","u","i","e","t">>, <<"n","o"," ","w","a","r","n","i","n","g","s">>, <<"a","l","e","r","t","s">>} :
                             contains(x, log_lower)
           five_min_ago == now - 5
           Recent(rows) == \E k \in 1..Len(rows) : /\ rows[k].text = log_text
                                                   /\ rows[k].timestamp >= five_min_ago
           recent == Recent(SentinelLog) \/ Recent(poller.pending)
           last == Tail(poller.logs) = <<>>
       IN  /\ poller' =
                 [poller EXCEPT !.logs = Tail(@),
                                !.flushed = @ \/ (status_line /\ poller.pending # <<>>),
                                !.pending = IF status_line /\ ~recent
                                            THEN Append(@, LogRow(log_text, "poller"))
                                            ELSE @,
                                !.wrote = last,
                                !.pc = IF last THEN "commit" ELSE "check"]
           /\ LIVE_EVENT_CACHE' = IF last THEN CacheEvents(LIVE_EVENT_CACHE, poller.events)
                                  ELSE LIVE_EVENT_CACHE
    /\ UNCHANGED <<main_mode, queue, pipeline, call, switchboard, SOURCE_STATUS_CACHE,
                   request, ingests, SentinelLog, now>>

\* background_poller, session.commit() and the sleep after it; a commit that
\* raises goes to the except clause and the rows are lost
poll_commit(ok) ==
    /\ poller.pc = "commit"
    /\ ~JudgeWait
    /\ IF ok
       THEN /\ SentinelLog' = SentinelLog \o poller.pending
            /\ poller' = [poller EXCEPT !.pc = "sleep", !.pending = <<>>, !.flushed = FALSE,
                                        !.called = FALSE]
            /\ now' = Tick
       ELSE /\ poller' = [poller EXCEPT !.pc = "failed", !.pending = <<>>,
                                        !.flushed = FALSE]
            /\ UNCHANGED <<SentinelLog, now>>
    /\ UNCHANGED <<main_mode, queue, pipeline, call, switchboard, SOURCE_STATUS_CACHE,
                   LIVE_EVENT_CACHE, request, ingests>>

\* an except clause outside the loop: the task ends with the first failure
poll_except_Outside ==
    /\ poller.pc = "failed"
    /\ ~JudgeWait
    /\ poller' = [poller EXCEPT !.pc = "ended"]
    /\ UNCHANGED <<main_mode, queue, pipeline, call, switchboard, SOURCE_STATUS_CACHE,
                   LIVE_EVENT_CACHE, request, ingests, SentinelLog, now>>

\* background_poller, except Exception: the error is logged, the task
\* sleeps and goes round the loop again
poll_except ==
    /\ poller.pc = "failed"
    /\ ~JudgeWait
    /\ poller' = [poller EXCEPT !.pc = "sleep", !.called = FALSE]
    /\ now' = Tick
    /\ UNCHANGED <<main_mode, queue, pipeline, call, switchboard, SOURCE_STATUS_CACHE,
                   LIVE_EVENT_CACHE, request, ingests, SentinelLog>>

\* GET /live/ingest up to its session.commit(): 400 outside LIVE mode, else
\* ingest(), whose exception fails the request
live_request(net) ==
    /\ request.pc = "idle"
    /\ switchboard.pc = "idle"
    /\ ~JudgeWait
    /\ ingests < MaxRequests
    /\ ingests' = ingests + 1
    /\ request' =
          IF main_mode # "LIVE"
          THEN [IdleRequest EXCEPT !.handler = "live_ingest", !.status_code = 400]
          ELSE LET result == LiveResults[net]
               IN  IF result.raised # NoExc
                   THEN [IdleRequest EXCEPT !.handler = "live_ingest", !.status_code = 500]
                   ELSE [IdleRequest EXCEPT !.pc = "persist", !.handler = "live_ingest",
                                            !.events = result.events, !.logs = result.logs]
    /\ UNCHANGED <<main_mode, queue, pipeline, call, switchboard, poller,
                   SOURCE_STATUS_CACHE, LIVE_EVENT_CACHE, SentinelLog, now>>

\* GET /live/ingest from the commit on: every log line becomes a row, the
\* events go to the cache; the commit waits while the poller's session
\* holds the write lock
live_commit ==
    /\ request.pc = "persist"
    /\ switchboard.pc = "idle"
    /\ ~JudgeWait
    /\ ~poller.flushed
    /\ SentinelLog' = SentinelLog \o [k \in 1..Len(request.logs) |->
                                         LogRow(request.logs[k], "live_ingest")]
    /\ LIVE_EVENT_CACHE' = CacheEvents(LIVE_EVENT_CACHE, request.events)
    /\ request' = [request EXCEPT !.pc = "idle", !.status_code = 200]
    /\ UNCHANGED <<main_mode, queue, pipeline, call, switchboard, poller,
                   SOURCE_STATUS_CACHE, ingests, now>>

LiveNext ==
    \/ \E m \in {"MOCK", "LIVE"} : toggle_mode(m)
    \/ poll_cycle
    \/ \E net \in LiveNetworks : poll_ingest(net)
    \/ poll_check
    \/ \E ok \in BOOLEAN : poll_commit(ok)
    \/ poll_except
    \/ \E net \in LiveNetworks : live_request(net)
    \/ live_commit

\* a server started in LIVE mode, without keys for the judge and the chain
LiveInit == Init /\ main_mode = "LIVE" /\ ~gemini_configured /\ ~blockchain_configured

\* the poller over many cycles, with /live/ingest and the mode toggle
LiveSpec == LiveInit /\ [][LiveNext]_vars

\* the event loop resumes the poller task whenever its sleep has ended
LiveFairSpec ==
    /\ LiveSpec
    /\ WF_vars(poll_cycle)
    /\ WF_vars(poll_except)

(***************************************************************************)
(* Calls of the selection policy, the address check and the normaliser,    *)
(* each with its arguments and its result                                  *)
(***************************************************************************)
\* longest registry the calls are made with
MaxRegistry == 3

AddrFour == W_0x \o Rep("4", 40)

\* the entries data/ngos.json is drawn from
NgoPool ==
    << NGO("asia-quake", TRUE, <<W_earthquake>>, <<"asia">>, AddrGood),
       NGO("global-quake", TRUE, <<<<"E","a","r","t","h","q","u","a","k","e">>>>, <<"global">>, AddrUpper),
       NGO("us-quake", TRUE, <<W_earthquake, W_flood>>, <<"north_america">>, AddrTypo),
       NGO("asia-unverified", FALSE, <<W_earthquake>>, <<"asia">>, AddrFour),
       NGO("flood-short", TRUE, <<W_flood>>, <<"global", "pacific">>, AddrShort) >>

\* the registries _load_ngos can read: the pool's entries in any order
Registries ==
    LET picks == UNION { [1..n -> 1..Len(NgoPool)] : n \in 0..MaxRegistry }
        Injective(f) == \A i, j \in DOMAIN f : i # j => f[i] # f[j]
    IN  { [i \in DOMAIN f |-> NgoPool[f[i]]] : f \in { g \in picks : Injective(g) } }

DisasterTypes ==
    { W_earthquake, <<"M","8",".","2"," ","E","a","r","t","h","q","u","a","k","e">>, <<"E","Q">>, W_flood, W_quake }

\* Tokyo, Miami, Lima, and a place outside every box of _get_region
Locations ==
    { <<3567640, 13965000>>, <<2576170, -8019180>>, <<-1204640, -7704280>>,
      <<6000000, 1000000>> }

Addresses ==
    { AddrGood, AddrUpper, lower(AddrUpper), AddrTypo, AddrShort, AddrFour,
      <<" ">> \o AddrGood, W_0x \o Rep("1", 40), <<>> }

\* ngo_manager.select_recipient(disaster_type, location)
call_select_recipient ==
    /\ call = NoCall
    /\ \E ngos \in Registries, disaster_type \in DisasterTypes, location \in Locations :
          call' = [fn |-> "select_recipient", ngos |-> ngos,
                   disaster_type |-> disaster_type, location |-> location,
                   result |-> select_recipient(ngos, disaster_type, location)]
    /\ UNCHANGED <<main_mode, queue, pipeline, ingestion>>

\* ngo_manager.validate_address(address)
call_validate_address ==
    /\ call = NoCall
    /\ \E ngos \in Registries, address \in Addresses :
          call' = [fn |-> "validate_address", ngos |-> ngos, address |-> address,
                   result |-> validate_address(ngos, address)]
    /\ UNCHANGED <<main_mode, queue, pipeline, ingestion>>

RECURSIVE Widen(_)
\* the text with every blank doubled
Widen(s) == IF s = <<>> THEN <<>>
            ELSE IF Head(s) = " " THEN <<" ", " ">> \o Widen(Tail(s))
            ELSE <<Head(s)>> \o Widen(Tail(s))

\* the text in other letter case and with other whitespace
TextVariants(s) ==
    { s, upper(s), lower(s), <<" ", "\t">> \o s \o <<"\n">>, Widen(s) }

\* an event on the equator, a little south of it
Equator ==
    SourceEvent(<<"g","d","a","c","s">>, W_eq, <<"Q","u","i","t","o"," ","q","u","a","k","e">>, <<-1, -7850000>>,
                Raw(Absent, Absent, Str(<<"R","e","d">>), Absent))

\* the event as another report of it can give it
EventVariants(e) ==
    { e,
      [e EXCEPT !.source = upper(@), !.disaster_type = upper(@)],
      [e EXCEPT !.description = <<" ">> \o Widen(@) \o <<"\t">>],
      [e EXCEPT !.location = <<@[1] + 2, @[2]>>],
      [e EXCEPT !.raw = Raw(Num(10), Str(<<"g","r","e","e","n">>), Absent, Absent)],
      [e EXCEPT !.description = W_other],
      [e EXCEPT !.location = <<@[1] + 100, @[2]>>] }

\* _event_id(a) and _event_id(b) for two reports a, b of one event
call__event_id ==
    /\ call = NoCall
    /\ \E e \in {Events[1], Events[4], Equator} :
          \E a \in EventVariants(e), b \in EventVariants(e) :
             call' = [fn |-> "_event_id", a |-> a, b |-> b,
                      ra |-> _event_id(a), rb |-> _event_id(b)]
    /\ UNCHANGED <<main_mode, queue, pipeline, ingestion>>

BucketInputs ==
    { <<"E","a","r","t","h","q","u","a","k","e">>, <<"E","Q">>, <<"w","i","l","d","f","i","r","e","s">>, <<"V","o","l","c","a","n","o"," ","f","i","r","e">>,
      <<"e","a","r","t","h","q","u","a","k","e"," ","f","i","r","e">>, <<"f","i","r","e"," ","s","t","o","r","m">>, <<"s","e","i","s","m","i","c"," ","f","l","o","o","d">>,
      <<"T","r","o","p","i","c","a","l"," ","S","t","o","r","m">>, W_flood, <<"T","S">>, <<"t","h","e","r","m","a","l"," ","a","n","o","m","a","l","y">>,
      <<"d","r","o","u","g","h","t">>, <<"l","a","n","d"," ","s","l","i","d","e">>, <<>> }

\* _trigger_bucket(s) and _trigger_bucket(v) for a text s and a variant v
call__trigger_bucket ==
    /\ call = NoCall
    /\ \E s \in BucketInputs : \E v \in TextVariants(s) :
          call' = [fn |-> "_trigger_bucket", s |-> s, v |-> v,
                   rs |-> _trigger_bucket(s), rv |-> _trigger_bucket(v)]
    /\ UNCHANGED <<main_mode, queue, pipeline, ingestion>>

\* get_ai_decision(a) and get_ai_decision(b) in MOCK mode, which return
\* from the table before a judge call is set up
call_get_ai_decision ==
    /\ call = NoCall
    /\ agent_mode = "MOCK"
    /\ LET types == BucketInputs \cup
                    { <<"M","8",".","2"," ","E","a","r","t","h","q","u","a","k","e">>, <<"m","i","n","o","r"," ","t","r","e","m","o","r">>, <<"S","u","p","e","r"," ","T","y","p","h","o","o","n">>,
                      <<"h","u","r","r","i","c","a","n","e"," ","f","l","o","o","d">>, <<"t","s","u","n","a","m","i">>, <<"f","l">>, <<"t","o","r","n","a","d","o">> }
       IN  \E a \in types, b \in types :
              call' = [fn |-> "get_ai_decision", a |-> a, b |-> b, judge |-> "none",
                       ra |-> MockDecision(a), rb |-> MockDecision(b)]
    /\ UNCHANGED <<main_mode, queue, pipeline, ingestion>>

\* the largest retries argument _get_json_with_retries is called with
MaxRetries == 2

\* _get_json_with_retries(client, url, retries = r) against a feed that
\* answers the k-th request with resps[k]
call__get_json_with_retries ==
    /\ call = NoCall
    /\ LET answers == { HttpResponse(200, Body("feed", <<3>>)),
                        HttpResponse(200, Body("unparseable", <<>>)),
                        HttpResponse(500, Body("none", <<>>)),
                        TransportError("ConnectError") }
       IN  \E r \in 0..MaxRetries : \E resps \in [1..(r + 1) -> answers] :
              call' = [fn |-> "_get_json_with_retries", resps |-> resps, retries |-> r,
                       got |-> _get_json_with_retries(resps, r)]
    /\ UNCHANGED <<main_mode, queue, pipeline, ingestion>>

\* fetch_gdacs, fetch_eonet and fetch_nws against a feed whose answer to
\* the first request is `first` and to every later request its events
call_fetch ==
    /\ call = NoCall
    /\ LET Feed(events) == HttpResponse(200, Body("feed", events))
           firsts == { HttpResponse(c, Body("none", <<>>)) : c \in {429, 500} }
                     \cup { TransportError(t) : t \in {"ReadTimeout", "ConnectError"} }
                     \cup { HttpResponse(200, Body("feed", <<>>)) }
           quiet == [z \in 1..Len(HIGH_RISK_ZONES_US) |-> <<Feed(<<>>), Feed(<<>>)>>]
       IN  \E first \in firsts :
              call' = [fn |-> "fetch", first |-> first,
                       gdacs |-> fetch_gdacs(first),
                       eonet |-> fetch_eonet(<<first, Feed(<<3>>), Feed(<<3>>)>>),
                       nws |-> fetch_nws(<<first, Feed(<<4, 4>>), Feed(<<4, 4>>)>>, quiet)]
    /\ UNCHANGED <<main_mode, queue, pipeline, ingestion>>

\* ngo_manager._get_region(lat, lon) on the corners of its boxes, on the
\* points next to them and on points inside; degrees, then 1/100000 degree
call__get_region ==
    /\ call = NoCall
    /\ LET lats == {-60, -51, -50, 0, 9, 10, 24, 25, 37, 50, 51}
           lons == {-181, -180, -131, -130, -101, -100, -85, -70, -69, -65, -64,
                    0, 99, 100, 125, 150, 151, 180, 181}
       IN  \E lat \in lats, lon \in lons, dlat \in {-1, 0, 1} :
              call' = [fn |-> "_get_region", lat |-> lat * 100000 + dlat,
                       lon |-> lon * 100000,
                       region |-> _get_region(lat * 100000 + dlat, lon * 100000)]
    /\ UNCHANGED <<main_mode, queue, pipeline, ingestion>>

\* the call has returned
call_return ==
    /\ call # NoCall
    /\ call' = NoCall
    /\ UNCHANGED <<main_mode, queue, pipeline, ingestion>>

PureInit == Init /\ main_mode = "MOCK" /\ ~blockchain_configured

PureNext ==
    \/ call_select_recipient
    \/ call_validate_address
    \/ call__event_id
    \/ call__trigger_bucket
    \/ call_get_ai_decision
    \/ call__get_json_with_retries
    \/ call_fetch
    \/ call__get_region
    \/ call_return

\* the functions alone, called with every input of the sets above
PureSpec == PureInit /\ [][PureNext]_vars

(***************************************************************************)
(* Properties                                                              *)
(***************************************************************************)
SinkInvoked == run.sinkCalls > 0

TxAssigned == run.tx_hash # "none"

Terminal == run.pc \in {"done", "raised"}

Zero == Str(<<"0">>)

\* position of the first occurrence of a step in the run's trace, 0 if none
At(step) == IF InSeq(step, run.trace)
            THEN SetMin({i \in 1..Len(run.trace) : run.trace[i] = step})
            ELSE 0

\* C1: the sink is invoked, or a transaction hash assigned, only in a run
\* whose authorization is YES and whose Decision says PAYOUT; a Decision
\* with authorization NO never reaches the sink.
C1_SinkOnlyIfAuthorized ==
    /\ (SinkInvoked \/ TxAssigned) =>
          /\ run.authorization = W_YES
          /\ run.decision = "PAYOUT"
          /\ run.decision_data.authorization # W_NO
    /\ (run.decision_data.authorization = W_NO \/ run.authorization = W_NO) =>
          ~SinkInvoked /\ ~TxAssigned

C1_Witness_SinkReached ==
    SinkInvoked /\ run.tx_hash = "real" /\ run.authorization = W_YES

\* C2: events with the same fingerprint cause at most one disbursement:
\* no two payout rows belong to events with the same _event_id.
C2_NoDuplicatePayout ==
    \A i, j \in 1..Len(db) :
        i # j => _event_id(Events[db[i].ev]) # _event_id(Events[db[j].ev])

\* C3: every Decision get_ai_decision returns has decision = PAYOUT exactly
\* when authorization = YES, and payout_amount_usdc = "0" when
\* authorization = NO.
C3_DecisionConsistent ==
    run.decision_data # NoDecision =>
        LET d == run.decision_data
        IN  /\ d.authorization \in {W_YES, W_NO}
            /\ d.decision \in {"PAYOUT", "DENY"}
            /\ (d.decision = "PAYOUT" <=> d.authorization = W_YES)
            /\ (d.authorization = W_NO => d.payout_amount_usdc = Zero)

C3_Witness_JudgeDenyWithAmount ==
    /\ run.pc = "decided"
    /\ run.resp.shape = "object"
    /\ run.resp.authorization = Str(W_NO)
    /\ run.resp.payout_amount_usdc # Zero
    /\ run.decision_data.payout_amount_usdc = Zero

\* C4: once the timeout has expired get_ai_decision does not wait for the
\* judge call: it is never blocked on a call that is still in flight.
C4_TimeoutDoesNotWait ==
    run.timedOut => ~(run.pc = "executor_exit" /\ run.judge = "running")

\* C5: get_ai_decision never raises to its caller.
C5_GatewayNeverRaises == run.error # "get_ai_decision"

\* the text is YES up to letter case, between leading and trailing whitespace
YesIgnoringCaseAndPadding(s) ==
    \E a \in 0..Len(s) :
        /\ a + 3 <= Len(s)
        /\ \A i \in 1..a : s[i] \in Whitespace
        /\ \A i \in (a + 4)..Len(s) : s[i] \in Whitespace
        /\ lower(SubSeq(s, a + 1, a + 3)) = <<"y","e","s">>

JudgeDecided == run.pc = "decided" /\ run.resp.shape = "object"

WellFormed(address) ==
    /\ Len(address) = 42
    /\ SubSeq(address, 1, 2) = W_0x
    /\ \A i \in 3..Len(address) : address[i] \in HexDigits

\* C7: the sink is invoked, or a transaction id assigned, only after
\* select_recipient returned a recipient and validate_address accepted its
\* address in the same run, in that order, so that the disbursement goes to
\* a well-formed address of a verified recipient.
C7_GatedDisbursement ==
    (SinkInvoked \/ TxAssigned) =>
        /\ run.ngo_selected # 0
        /\ run.valid
        /\ 0 < At("AUTHORIZED") /\ At("AUTHORIZED") < At("SELECTED")
        /\ At("SELECTED") < At("VALID") /\ At("VALID") < At("TX_INIT")
        /\ Selected(run).verified
        /\ WellFormed(Selected(run).address)

\* the order of the gates alone, which the code keeps
C7_GateOrder ==
    (SinkInvoked \/ TxAssigned) =>
        /\ run.ngo_selected # 0 /\ run.valid /\ Selected(run).verified
        /\ 0 < At("AUTHORIZED") /\ At("AUTHORIZED") < At("SELECTED")
        /\ At("SELECTED") < At("VALID") /\ At("VALID") < At("TX_INIT")

PastSelect == run.pc \in {"validate", "disburse", "record", "done"}
              /\ run.authorization = W_YES /\ run.decision = "PAYOUT"

PastValidate == run.pc \in {"disburse", "record", "done"}
                /\ run.authorization = W_YES /\ run.decision = "PAYOUT"

\* C8: an authorized run for which select_recipient returns None ends with
\* failed_no_ngo, one whose recipient's address validate_address rejects
\* ends with failed_validation, and neither reaches the sink or sets a
\* transaction id; those statuses arise in no other way.
C8_PolicyErrorsTerminal ==
    LET ngo == select_recipient(_ngos, Ev.disaster_type, Ev.location)
    IN  /\ (PastSelect /\ ngo = NoNGO) =>
              /\ run.pc = "done" /\ run.status = "failed_no_ngo"
              /\ ~SinkInvoked /\ ~TxAssigned
        /\ (PastValidate /\ ngo # NoNGO /\ ~validate_address(_ngos, ngo.address)) =>
              /\ run.pc = "done" /\ run.status = "failed_validation"
              /\ ~SinkInvoked /\ ~TxAssigned
        /\ run.status = "failed_no_ngo" => (PastSelect /\ ngo = NoNGO)
        /\ run.status = "failed_validation" =>
              (PastValidate /\ ngo # NoNGO /\ ~validate_address(_ngos, ngo.address))

C8_Witness_NoNgo == run.pc = "done" /\ run.status = "failed_no_ngo"

C8_Witness_Validation == run.pc = "done" /\ run.status = "failed_validation"

\* a run ended by a rejected address, with no sink call and no transaction id
C8_Witness_PolicyErrors ==
    /\ C8_Witness_Validation
    /\ run.ngo_selected # 0 /\ ~run.valid
    /\ ~SinkInvoked /\ ~TxAssigned

\* C9: a run whose authorization is NO selects no recipient, validates no
\* address, disburses nothing, sets no tx_hash and ends with status
\* completed.
C9_DeniedRunCompletes ==
    (Terminal /\ run.authorization = W_NO) =>
        /\ run.status = "completed"
        /\ run.ngo_selected = 0 /\ ~run.valid
        /\ ~SinkInvoked /\ ~TxAssigned

\* the sink was invoked and returned no transaction identifier
SinkFailed == SinkInvoked /\ ~TxAssigned

\* C10: when the sink reports failure the run ends with failed_transaction
\* after exactly one sink invocation, and persists no payout row; no run
\* invokes the sink twice.
C10_SinkFailureTerminal ==
    /\ SinkFailed =>
          /\ run.pc = "done" /\ run.status = "failed_transaction"
          /\ run.sinkCalls = 1
          /\ Len(db) = run.rows0
    /\ run.sinkCalls <= 1
    /\ run.status = "failed_transaction" => Len(db) = run.rows0

C10_Witness_SinkFailed ==
    SinkFailed /\ run.status = "failed_transaction" /\ run.sinkCalls = 1

\* the recipient supports the type: substring in either direction, letter
\* case ignored
TypeMatch(ngo, t) ==
    \E j \in 1..Len(ngo.disaster_types) :
        \/ contains(lower(ngo.disaster_types[j]), lower(t))
        \/ contains(lower(t), lower(ngo.disaster_types[j]))

Selecting == call.fn = "select_recipient"

\* C13: with a verified type-matching recipient whose regions include the
\* event's region tag in the registry, select_recipient returns a recipient
\* of that region, also when a global-only one is there too; it returns a
\* global one only when no region match exists.
C13_RegionBeforeGlobal ==
    Selecting =>
        LET region == _get_region(call.location[1], call.location[2])
            Candidate(n) == n.verified /\ TypeMatch(n, call.disaster_type)
            RegionMatch(n) == Candidate(n) /\ InSeq(region, n.regions)
            Global(n) == Candidate(n) /\ InSeq("global", n.regions)
            Has(P(_)) == \E i \in 1..Len(call.ngos) : P(call.ngos[i])
        IN  /\ Has(RegionMatch) => InSeq(region, call.result.regions)
            /\ (~Has(RegionMatch) /\ Has(Global)) => InSeq("global", call.result.regions)
            /\ Has(Candidate) => Candidate(call.result)

\* C14: select_recipient returns none exactly when no verified recipient
\* supports the type; a recipient it returns is an entry of the registry,
\* verified and type-matching; the same call gives the same recipient.
C14_NoneIffNoCandidate ==
    Selecting =>
        LET Candidate(n) == n.verified /\ TypeMatch(n, call.disaster_type)
        IN  /\ call.result = NoNGO <=> ~\E i \in 1..Len(call.ngos) : Candidate(call.ngos[i])
            /\ call.result # NoNGO =>
                  /\ InSeq(call.result, call.ngos)
                  /\ Candidate(call.result)
            /\ call.result = select_recipient(call.ngos, call.disaster_type, call.location)

C14_Witness_OnlyUnverified ==
    /\ Selecting
    /\ call.result = NoNGO
    /\ \E i \in 1..Len(call.ngos) :
          ~call.ngos[i].verified /\ TypeMatch(call.ngos[i], call.disaster_type)

\* C15: validate_address returns ok only for an address that starts with
\* 0x, is 42 characters long, has hexadecimal digits after the prefix and
\* is, letter case ignored, the address of a verified recipient.
C15_OkOnlyIfWellFormedVerified ==
    (call.fn = "validate_address" /\ call.result) =>
        /\ WellFormed(call.address)
        /\ \E i \in 1..Len(call.ngos) :
              call.ngos[i].verified /\ lower(call.ngos[i].address) = lower(call.address)

RECURSIVE Words(_)
\* the words of a text, split at whitespace
Words(s) ==
    IF s = <<>> THEN <<>>
    ELSE IF Head(s) \in Whitespace THEN Words(Tail(s))
    ELSE LET n == SetMin({i \in 1..(Len(s) + 1) : i > Len(s) \/ s[i] \in Whitespace})
         IN  <<SubSeq(s, 1, n - 1)>> \o Words(SubSeq(s, n, Len(s)))

\* two texts differ at most in letter case and whitespace
SameText(s, t) == Words(lower(s)) = Words(lower(t))

\* C16: two events whose source, disaster_type and description differ at
\* most in letter case and whitespace, and whose coordinates round to the
\* same 4 decimals, have the same fingerprint, whatever their raw payload.
C16_FingerprintStable ==
    (/\ call.fn = "_event_id"
     /\ SameText(call.a.source, call.b.source)
     /\ SameText(call.a.disaster_type, call.b.disaster_type)
     /\ SameText(call.a.description, call.b.description)
     /\ Round4(call.a.location[1]) = Round4(call.b.location[1])
     /\ Round4(call.a.location[2]) = Round4(call.b.location[2]))
        => call.ra = call.rb

QuakeWords == {W_earthquake, W_quake, W_eq, <<"s","e","i","s","m","i","c">>}

FireWords == {W_wildfire, <<"w","i","l","d","f","i","r","e","s">>, W_fire, W_volcano, <<"v","o","l","c","a","n","o","e","s">>, <<"t","h","e","r","m","a","l">>}

StormWords == {W_hurricane, W_cyclone, W_typhoon, W_storm, <<"t","o","r","n","a","d","o">>, W_flood,
               W_fl, W_tsunami, W_ts}

HasWord(words, s) == \E w \in words : contains(w, lower(s))

\* C17: _trigger_bucket returns one of quake, fire, storm, other; a quake
\* keyword wins over a fire keyword and a fire keyword over a storm
\* keyword; a text with no keyword is other; letter case and whitespace of
\* the text do not change the result.
C17_BucketTotalAndStable ==
    call.fn = "_trigger_bucket" =>
        /\ call.rs \in {W_quake, W_fire, W_storm, W_other}
        /\ HasWord(QuakeWords, call.s) => call.rs = W_quake
        /\ (~HasWord(QuakeWords, call.s) /\ HasWord(FireWords, call.s)) => call.rs = W_fire
        /\ (~HasWord(QuakeWords \cup FireWords, call.s) /\ HasWord(StormWords, call.s))
              => call.rs = W_storm
        /\ ~HasWord(QuakeWords \cup FireWords \cup StormWords, call.s) => call.rs = W_other
        /\ call.rv = call.rs

C17_Witness_QuakeBeforeFire ==
    /\ call.fn = "_trigger_bucket"
    /\ HasWord(QuakeWords, call.s) /\ HasWord(FireWords, call.s)
    /\ call.v # call.s
    /\ call.rv = W_quake

(***************************************************************************)
(* Ingestion                                                               *)
(***************************************************************************)
\* C11: no source adapter raises, whatever the transport does and whatever
\* the response looks like: a LIVE ingest() always returns, with one
\* (events, status) pair of every adapter it calls.
C11_AdaptersNeverRaise ==
    (switchboard.pc \in {"returned", "raised"} /\ switchboard.mode = "LIVE") =>
        /\ switchboard.pc = "returned"
        /\ switchboard.raised = NoExc
        /\ Len(switchboard.results) = 3
        /\ \A k \in 1..Len(switchboard.results) : switchboard.results[k].status # <<>>

\* C12: the status of every failing adapter is classified by the cause of
\* its failure: Unauthorized for 401/403, Rate Limited for 429, Timeout for
\* a read or connect timeout, Signal Lost for a connection failure and a
\* parse error for a body that cannot be parsed.
C12_StatusClassifiedByCause ==
    \A k \in 1..Len(switchboard.results) :
        LET status == switchboard.results[k].status
            cause == switchboard.results[k].cause
        IN  /\ (cause.type = "HTTPStatusError" /\ cause.code \in {401, 403})
                  => contains(<<"U","n","a","u","t","h","o","r","i","z","e","d">>, status)
            /\ (cause.type = "HTTPStatusError" /\ cause.code = 429)
                  => contains(<<"R","a","t","e"," ","L","i","m","i","t","e","d">>, status)
            /\ cause.type \in {"ReadTimeout", "ConnectTimeout"}
                  => contains(<<"T","i","m","e","o","u","t">>, status)
            /\ cause.type = "ConnectError" => contains(<<"S","i","g","n","a","l"," ","L","o","s","t">>, status)
            /\ cause.type \in {"JSONDecodeError", "ParseError"}
                  => contains(<<"P","a","r","s","e"," ","E","r","r","o","r">>, status)

C18_Witness_FileOrder ==
    /\ switchboard.pc = "returned"
    /\ switchboard.mode = "MOCK"
    /\ switchboard.events = <<2, 1>>

\* C19: a LIVE ingest() calls each of the four source adapters exactly once
\* and returns the concatenation of their event lists and one status per
\* adapter, in the adapters' order.
C19_EveryAdapterOnce ==
    (switchboard.pc \in {"returned", "raised"} /\ switchboard.mode = "LIVE") =>
        /\ switchboard.pc = "returned"
        /\ \A a \in DOMAIN switchboard.calls : switchboard.calls[a] = 1
        /\ Len(switchboard.logs) = 4
        /\ Len(switchboard.results) = 4
        /\ \A k \in 1..Len(switchboard.logs) : switchboard.logs[k] = switchboard.results[k].status

\* C20: the poller enters ingest() only in a cycle whose mode is LIVE; a
\* cycle whose mode is not LIVE calls no adapter and leaves the
\* live-event cache and the source-status cache as they are.
C20_PollerOnlyInLive ==
    [][ /\ (switchboard'.caller = "poller" /\ switchboard.caller # "poller")
            => (main_mode = "LIVE" /\ poller'.cycle_mode = "LIVE")
        /\ (poller' # poller /\ poller'.cycle_mode # "LIVE")
            => (/\ ~poller'.called /\ ~poller'.wrote
                /\ UNCHANGED <<switchboard, SOURCE_STATUS_CACHE, LIVE_EVENT_CACHE>>)
        /\ switchboard.caller = "poller" => poller.cycle_mode = "LIVE" ]_vars

\* the poller idles through a MOCK cycle after a LIVE cycle filled the caches
C20_Witness_IdleCycleAfterLive ==
    /\ poller.cycle_mode = "MOCK"
    /\ main_mode = "MOCK"
    /\ LIVE_EVENT_CACHE # {}
    /\ SOURCE_STATUS_CACHE.gdacs.status = "ok"

(***************************************************************************)
(* Audit trail and Gateway decisions                                       *)
(***************************************************************************)
\* C21: every run that ends with a status adds exactly one SentinelEventDB
\* row, and the rows already there are never changed or removed.
C21_OneRecordPerRun ==
    [][ /\ (run'.pc = "done" /\ run.pc # "done") => Len(db') = run'.rows0 + 1
        /\ Len(db') >= Len(db) /\ SubSeq(db', 1, Len(db)) = db ]_vars

\* C22: every run ends with one of the statuses completed, failed_no_ngo,
\* failed_validation, failed_transaction, failed, and a run that ends
\* with another status than completed has written a log with status fail.
C22_LabelledTerminalStatus ==
    run.pc \in {"done", "raised"} =>
        /\ run.pc = "done"
        /\ run.status \in {"completed", "failed_no_ngo", "failed_validation",
                           "failed_transaction", "failed"}
        /\ run.status # "completed" =>
              \E i \in 1..Len(run.trace) :
                  run.trace[i] \in {"NO_NGO", "INVALID", "TX_FAILED"}

\* C25: every Decision get_ai_decision returns carries a payout amount that
\* is the text of a number from 0 to 10000, and so does every run that
\* calls the sink.
C25_PayoutAmountBounded ==
    LET amount == run.decision_data.payout_amount_usdc
    IN  (run.decision_data # NoDecision \/ SinkInvoked) =>
            /\ amount.t = "str"
            /\ PyFloat(amount).ok
            /\ PyFloat(amount).n \in 0..10000

\* C26: each log is written before the next gate is evaluated: STEP 1
\* before the call of get_ai_decision, STEP 2 before select_recipient, the
\* NGO SELECTED log before validate_address, STEP 4 before send_payout.
C26_LogBeforeNextGate ==
    /\ At("ORACLE") > 0 => (0 < At("DETECTED") /\ At("DETECTED") < At("ORACLE"))
    /\ \A gate \in {"SELECTED", "NO_NGO"} :
          At(gate) > 0 => (0 < At("AUTHORIZED") /\ At("AUTHORIZED") < At(gate))
    /\ \A gate \in {"VALID", "INVALID"} :
          At(gate) > 0 => (0 < At("NGO_SELECTED") /\ At("NGO_SELECTED") < At(gate))
    /\ At("SINK") > 0 => (0 < At("TX_INIT") /\ At("TX_INIT") < At("SINK"))

\* C27: while a run waits for the judge, the poller and the other request
\* handlers can take a step.
C27_JudgeWaitDoesNotStall ==
    run.pc = "future_result" =>
        /\ ENABLED (poller_idle \/ poller_poll)
        /\ ENABLED (\E m \in {"MOCK", "LIVE"} : toggle_mode(m))

\* C28: a judge answer that is no JSON, no JSON object, or an object
\* without the authorization key makes get_ai_decision return the Decision
\* of _intelligent_fallback for the event.
C28_MalformedAnswerFallsBack ==
    (/\ run.judge = "done"
     /\ run.resp # NoResponse
     /\ (run.resp.shape # "object" \/ run.resp.authorization = Absent)) =>
        /\ run.pc = "decided"
        /\ run.decision_data = _intelligent_fallback(Ev.disaster_type, Ev.raw).d

\* the Decision has this authorization, decision and amount
Answers(d, authorization, decision, amount) ==
    /\ d.authorization = authorization
    /\ d.decision = decision
    /\ d.payout_amount_usdc = Str(amount)

\* C23 as stated: in MOCK mode get_ai_decision calls no judge, answers
\* YES/PAYOUT/"8200" for "M8.2 Earthquake" and NO/DENY/"0" for "minor
\* tremor", and in general answers by the first class with a keyword in
\* the type: quake 8200, fire or volcano 5600, storm, hurricane, cyclone or
\* typhoon 9500, flood or tsunami 7200, and NO/DENY/"0" otherwise.
C23_MockTable ==
    call.fn = "get_ai_decision" =>
        LET quake == HasWord({<<"q","u","a","k","e">>}, call.a)
            fire == HasWord({<<"f","i","r","e">>, <<"v","o","l","c","a","n","o">>}, call.a)
            storm == HasWord({<<"s","t","o","r","m">>, <<"h","u","r","r","i","c","a","n","e">>, <<"c","y","c","l","o","n","e">>, <<"t","y","p","h","o","o","n">>}, call.a)
            flood == HasWord({<<"f","l","o","o","d">>, <<"t","s","u","n","a","m","i">>}, call.a)
        IN  /\ call.judge = "none"
            /\ call.a = <<"M","8",".","2"," ","E","a","r","t","h","q","u","a","k","e">> => Answers(call.ra, W_YES, "PAYOUT", <<"8","2","0","0">>)
            /\ call.a = <<"m","i","n","o","r"," ","t","r","e","m","o","r">> => Answers(call.ra, W_NO, "DENY", <<"0">>)
            /\ quake => Answers(call.ra, W_YES, "PAYOUT", <<"8","2","0","0">>)
            /\ (~quake /\ fire) => Answers(call.ra, W_YES, "PAYOUT", <<"5","6","0","0">>)
            /\ (~quake /\ ~fire /\ storm) => Answers(call.ra, W_YES, "PAYOUT", <<"9","5","0","0">>)
            /\ (~quake /\ ~fire /\ ~storm /\ flood)
                  => Answers(call.ra, W_YES, "PAYOUT", <<"7","2","0","0">>)
            /\ (~quake /\ ~fire /\ ~storm /\ ~flood) => Answers(call.ra, W_NO, "DENY", <<"0">>)
            /\ call.a = call.b => call.ra = call.rb

\* C23 as amended: the same, with the quake class also holding every type
\* in which "eq" occurs and the flood class also the types that are
\* exactly "fl" or "ts", letter case ignored.
C23_MockTableWithCodes ==
    call.fn = "get_ai_decision" =>
        LET quake == HasWord({<<"q","u","a","k","e">>, <<"e","q">>}, call.a)
            fire == HasWord({<<"f","i","r","e">>, <<"v","o","l","c","a","n","o">>}, call.a)
            storm == HasWord({<<"s","t","o","r","m">>, <<"h","u","r","r","i","c","a","n","e">>, <<"c","y","c","l","o","n","e">>, <<"t","y","p","h","o","o","n">>}, call.a)
            flood == \/ HasWord({<<"f","l","o","o","d">>, <<"t","s","u","n","a","m","i">>}, call.a)
                     \/ lower(call.a) \in {<<"f","l">>, <<"t","s">>}
        IN  /\ call.judge = "none"
            /\ call.a = <<"M","8",".","2"," ","E","a","r","t","h","q","u","a","k","e">> => Answers(call.ra, W_YES, "PAYOUT", <<"8","2","0","0">>)
            /\ call.a = <<"m","i","n","o","r"," ","t","r","e","m","o","r">> => Answers(call.ra, W_NO, "DENY", <<"0">>)
            /\ quake => Answers(call.ra, W_YES, "PAYOUT", <<"8","2","0","0">>)
            /\ (~quake /\ fire) => Answers(call.ra, W_YES, "PAYOUT", <<"5","6","0","0">>)
            /\ (~quake /\ ~fire /\ storm) => Answers(call.ra, W_YES, "PAYOUT", <<"9","5","0","0">>)
            /\ (~quake /\ ~fire /\ ~storm /\ flood)
                  => Answers(call.ra, W_YES, "PAYOUT", <<"7","2","0","0">>)
            /\ (~quake /\ ~fire /\ ~storm /\ ~flood) => Answers(call.ra, W_NO, "DENY", <<"0">>)
            /\ call.a = call.b => call.ra = call.rb

\* a type with a fire and a storm keyword is answered as fire, one that is
\* only the code of a quake as quake
C23_Witness_FireBeforeStorm ==
    /\ call.fn = "get_ai_decision"
    /\ call.a = <<"f","i","r","e"," ","s","t","o","r","m">>
    /\ call.b = <<"E","Q">>
    /\ Answers(call.ra, W_YES, "PAYOUT", <<"5","6","0","0">>)
    /\ Answers(call.rb, W_YES, "PAYOUT", <<"8","2","0","0">>)

\* C24: in MOCK mode two disaster types of the same _trigger_bucket get
\* the same Decision.
C24_DecisionByBucket ==
    (call.fn = "get_ai_decision" /\ _trigger_bucket(call.a) = _trigger_bucket(call.b))
        => call.ra = call.rb

(***************************************************************************)
(* Retries                                                                 *)
(***************************************************************************)
\* C29: every adapter tries a failed request again: when the first request
\* of a feed fails and the next one succeeds, the adapter returns the
\* feed's events and no failure status.
C29_TransientFailureRetried ==
    (call.fn = "fetch" /\ (call.first.exc # "none" \/ call.first.status_code >= 400)) =>
        /\ call.gdacs.events = <<7>> /\ call.gdacs.cause = NoExc
        /\ call.eonet.events = <<3>> /\ call.eonet.cause = NoExc
        /\ call.nws.events = <<4, 4>> /\ call.nws.cause = NoExc

\* the request is answered, without an error status, by a body that parses
Succeeds(resp) ==
    resp.exc = "none" /\ resp.status_code < 400 /\ resp.body.shape # "unparseable"

\* C30: _get_json_with_retries with retries = r makes at most r+1 requests,
\* stops at the first that succeeds and returns its JSON, sleeps 0.35*k s
\* after the k-th failed attempt but not after the last, and raises the
\* exception of the last attempt if all r+1 fail.
C30_BoundedRetries ==
    call.fn = "_get_json_with_retries" =>
        LET r == call.retries
            ok == {k \in 1..(r + 1) : Succeeds(call.resps[k])}
            n == IF ok = {} THEN r + 1 ELSE SetMin(ok)
            last == call.resps[r + 1]
        IN  /\ call.got.requests = n
            /\ call.got.requests <= r + 1
            /\ call.got.sleeps = [k \in 1..(IF ok = {} THEN r ELSE n - 1) |-> 35 * k]
            /\ \A k \in 2..Len(call.got.sleeps) : call.got.sleeps[k - 1] < call.got.sleeps[k]
            /\ ok # {} => (call.got.exc = NoExc /\ call.got.payload = call.resps[n].body)
            /\ ok = {} =>
                  call.got.exc =
                     (IF last.exc # "none" THEN Exc(last.exc, 0)
                      ELSE IF last.status_code >= 400
                      THEN Exc("HTTPStatusError", last.status_code)
                      ELSE Exc("JSONDecodeError", 0))

\* two failed attempts, two growing sleeps, then the third request succeeds
C30_Witness_ThirdAttempt ==
    /\ call.fn = "_get_json_with_retries"
    /\ call.retries = 2
    /\ call.got.requests = 3
    /\ call.got.sleeps = <<35, 70>>
    /\ call.got.exc = NoExc

\* every attempt failed: the last exception is raised, with no sleep after it
C30_Witness_AllFailed ==
    /\ call.fn = "_get_json_with_retries"
    /\ call.retries = 1
    /\ call.got.exc = Exc("ConnectError", 0)
    /\ call.resps[1].status_code = 500
    /\ call.got.sleeps = <<35>>

(***************************************************************************)
(* Regions, source status and the live-event cache                         *)
(***************************************************************************)
\* C31: _get_region gives every coordinate exactly one of the tags asia,
\* north_america, us, pacific, global, a coordinate outside all four boxes
\* is tagged global, and each of the five tags is the tag of some coordinate.
C31_RegionTags ==
    call.fn = "_get_region" =>
        LET Box(s, n, w, e) ==
                /\ s * 100000 <= call.lat /\ call.lat <= n * 100000
                /\ w * 100000 <= call.lon /\ call.lon <= e * 100000
            tags == {"asia", "north_america", "us", "pacific", "global"}
            continental_us == {2500000, 3700000, 5000000} \X {-10000000, -8500000, -7000000}
        IN  /\ call.region \in tags
            /\ ~(Box(10, 50, 100, 150) \/ Box(25, 50, -130, -65) \/ Box(25, 50, -100, -70)
                 \/ Box(-50, 50, -180, 180)) => call.region = "global"
            /\ Box(10, 50, 100, 150) => call.region = "asia"
            /\ \A tag \in tags \ {"us"} :
                  \E lat \in {-6000000, 0, 3700000}, lon \in {-8500000, 12500000} :
                     _get_region(lat, lon) = tag
            /\ \E c \in continental_us : _get_region(c[1], c[2]) = "us"

\* C32: when a LIVE poll cycle has updated the source status, the entry of
\* each of gdacs, eonet, nws has status error if that adapter's fetch failed
\* in the cycle (for whatever classified cause) and ok otherwise, and its
\* event count is the number of events the adapter returned; a status is
\* always one of unknown, ok, error.
C32_StatusAfterPoll ==
    [][ /\ \A a \in {"gdacs", "eonet", "nws"} :
              SOURCE_STATUS_CACHE'[a].status \in {"unknown", "ok", "error"}
        /\ (switchboard.caller = "poller" /\ switchboard.pc = "returned"
            /\ switchboard'.pc = "idle") =>
              \A k \in 1..Len(switchboard.results) :
                 LET r == switchboard.results[k]
                     entry == SOURCE_STATUS_CACHE'[r.adapter]
                 IN  /\ entry.status = IF r.cause # NoExc THEN "error" ELSE "ok"
                     /\ entry.events = Len(r.events) ]_vars

(***************************************************************************)
(* Mode, disbursement and the vault                                        *)
(***************************************************************************)
\* C36: once /mode/toggle has set the mode, every component observes it:
\* whenever the pipeline calls get_ai_decision, the Gateway answers from
\* the deterministic table if and only if the mode is MOCK.
C36_GatewayObservesMode ==
    [][ (run.pc = "detected" /\ run' # run) => agent_mode = main_mode ]_vars

C38_VaultNeverOverdrawn ==
    LET RECURSIVE spent(_)
        spent(rows) ==
            IF rows = <<>> THEN 0
            ELSE LET amount == PyFloat(Str(Head(rows).payout_amount))
                 IN  (IF amount.ok THEN amount.n ELSE 0) + spent(Tail(rows))
    IN  spent(db) <= 10000

\* C39: a run whose disbursement step gave a transaction identifier has,
\* when it returns, written a row with that identifier, the amount and the
\* recipient, also when a step after the disbursement failed.
C39_DisbursementRecorded ==
    (run.pc = "done" /\ run.tx_hash # "none") =>
        /\ Len(db) = run.rows0 + 1
        /\ db[Len(db)] = PayoutRow(run)

(***************************************************************************)
(* The live-event cache, the log table and the life of the poller          *)
(***************************************************************************)
\* C33: the live-event cache is bounded and holds one entry per
\* fingerprint, the one written last: it never holds more entries than the
\* largest list of events one ingest() delivers, and no two of its entries
\* have the same key.
C33_CacheBounded ==
    LET Delivered(net) == Len(LiveResults[net].events)
        bound == SetMax({ Delivered(net) : net \in LiveNetworks })
    IN  /\ Cardinality(LIVE_EVENT_CACHE) <= bound
        /\ \A c, d \in LIVE_EVENT_CACHE : c.key = d.key => c = d

\* the fingerprint of every event of the model
EventIds == [i \in 1..Len(Events) |-> _event_id(Events[i])]

\* C34: cache writes of the poller and of /live/ingest are idempotent and
\* independent of their order: a writer whose list of events has already
\* been put into the cache, by itself or by the other writer, leaves the
\* cache as it is; and every entry's key is its id and is the fingerprint
\* of the event stored under it.
C34_CacheIdempotent ==
    [][ LET Keyed(cache) ==
                \A c \in cache : c.key = c.id /\ c.key = EventIds[c.ev]
            LastOf(events, k) ==
                events[SetMax({ j \in 1..Len(events) :
                                  EventIds[events[j]] = EventIds[events[k]] })]
            Holds(cache, events) ==
                \A k \in 1..Len(events) :
                   \E c \in cache : /\ c.key = EventIds[events[k]]
                                    /\ c.ev = LastOf(events, k)
            Written(events) == Holds(LIVE_EVENT_CACHE, events) =>
                                  LIVE_EVENT_CACHE' = LIVE_EVENT_CACHE
        IN  /\ Keyed(LIVE_EVENT_CACHE')
            /\ (poller.pc = "check" /\ poller'.pc = "commit") => Written(poller.events)
            /\ (request.pc = "persist" /\ request'.pc = "idle") => Written(request.events)
      ]_vars

\* the poller and /live/ingest have both put the same two-event list into
\* the cache, and the cache is the cache after one of them
C34_Witness_BothWrote ==
    /\ poller.wrote /\ poller.pc = "commit"
    /\ request.handler = "live_ingest" /\ request.status_code = 200
    /\ request.events = poller.events
    /\ Len(poller.events) > 2
    /\ LIVE_EVENT_CACHE = CacheEvents({}, poller.events)

\* C35: the poller persists only source-status lines, and never a line
\* whose text is already in a row persisted within the five minutes before.
C35_NoRecentDuplicate ==
    [][ (poller.pc = "commit" /\ poller'.pc = "sleep") =>
           \A k \in Len(SentinelLog) + 1 .. Len(SentinelLog') :
              LET row == SentinelLog'[k]
              IN  /\ \E a \in {<<"g","d","a","c","s",":"," ">>, <<"e","o","n","e","t",":"," ">>, <<"n","w","s",":"," ">>} :
                        startswith(lower(row.text), a)
                  /\ ~ \E j \in 1..Len(SentinelLog) :
                          /\ SentinelLog[j].text = row.text
                          /\ SentinelLog[j].timestamp >= row.timestamp - 5
      ]_vars

====
